---- MODULE Spec2Model ----
(***************************************************************************)
(* Model of the accessibility checker's backend server: the batch run      *)
(* (POST /api/batch-test, GET /api/batch-status/:batchId), the CI bulk run *)
(* (POST /api/ci/test-urls), the CI single-URL run (POST /api/ci/test-url), *)
(* the evidence capture (ScreenshotCapture), the consolidation of the      *)
(* report's violation tables (ReportGenerator.optimizeViolationTables),    *)
(* the report generation around it (generateEnhancedReport), the JUnit and *)
(* SARIF exports, the executive summary (calculateSummaryStats) and the    *)
(* clip and highlight geometry of captureElementScreenshot.                *)
(*                                                                         *)
(* Spec is the batch run with its pollers and the CI bulk run; SpecLive is *)
(* the batch run under the assumption that every awaited call settles;     *)
(* SpecMulti is two concurrent batch runs; SpecSingle, SpecCapture,        *)
(* SpecReport, SpecEnhanced, SpecJunit, SpecSarif, SpecSummary and         *)
(* SpecClip each run one of the other parts on its own state.              *)
(*                                                                         *)
(* The server is single-threaded JavaScript: the code between two awaits   *)
(* runs to completion, so one action is the code from one suspension point *)
(* to the next.  Every awaited call of the browser driver, the rule engine *)
(* or the file system either returns or throws; both are actions.          *)
(*                                                                         *)
(* A browser, context or page counts as open from the moment the call that *)
(* creates it returns until a close() call on it has settled.  Where the   *)
(* code ignores whether close() returned or threw, one action models both. *)
(***************************************************************************)
EXTENDS Integers, Sequences, FiniteSets, TLC

\* ------------------------------------------------------------------ bounds
MaxUrls == 2
MaxViolations == 1

\* ------------------------------------------------------------- input sets
Urls == {"u1", "u2"}
BatchIds == {"b1"}
UnknownIds == {"zz"}

UrlSeqs(n) == UNION {[1..k -> Urls] : k \in 0..n}

VARIABLES
  batchProgress,  \* global.batchProgress: batchId -> progress object
  urls,           \* req.body.urls of the batch request
  reqContinue,    \* req.body.continueOnFailure of the batch request
  pc,             \* position of the batch background task
  i,              \* loop index of the batch background task (1-based)
  browser,        \* let browser: "null", "open", "closed"
  context,        \* let context: "null", "open", "closed"
  page,           \* let page: 0 is null, k the page opened for URL k
  openPages,      \* pages of the context on which close() was not called
  attempted,      \* URL indices for which an audit was started
  err,            \* message of the error caught by the per-URL catch
  results,        \* const results: violations reported by axeBuilder.analyze()
  includeScreenshots, \* req.body.includeScreenshots of the batch request
  screenshotData, \* let screenshotData: "null" or "data"
  pollCode,       \* HTTP code of the last GET /api/batch-status response
  lastPoll,       \* body of the last 200 response, <<>> if none
  ciPc,           \* position of the POST /api/ci/test-urls handler
  ciUrls,         \* req.body.urls of the CI bulk request
  ciOptions,      \* failOnViolations, maxViolations, continueOnFailure
  ciResults,      \* const results = []
  overallSuccess, \* let overallSuccess
  ciI,            \* position of the for-of loop in urls (1-based)
  ciBrowser,      \* const browser: "null", "open", "closed"
  ciContext,      \* const context: "null", "open"
  ciPage,         \* const page: 0 is unset, k the page opened for URL k
  ciOpenPages,    \* pages of the context on which close() was not called
  ciAttempted,    \* URL indices for which an audit was started
  ciViolations,   \* testResults.violations.length of the current URL
  ciResponse,     \* response sent by the CI bulk handler, code 0 if none
  tuPc,           \* position of the POST /api/ci/test-url handler
  tuUrl,          \* req.body.url of the CI single-URL request, "" if missing
  tuOptions,      \* failOnViolations, maxViolations, includeScreenshots, format
  tuBrowser,      \* const browser: "null", "open", "closed"
  tuViolations,   \* results.violations.length
  tuScreenshotData, \* let screenshotData: "null" or "data"
  tuResponse,     \* response sent by the CI single-URL handler, code 0 if none
  capPc,          \* position of captureViolationScreenshots()
  capNodes,       \* results.violations[k].nodes.length, for each violation k
  violationIndex, \* loop index over the violations (1-based)
  nodeIndex,      \* loop index over the nodes of the violation (1-based)
  capImage,       \* image buffer of the current node: "none", "plain",
                  \* "highlighted"
  capFiles,       \* <<violation, node>> -> image written to the node's file
  capData,        \* const screenshotData = []
  capLog,         \* last message written to the console
  reportPc,       \* "input", "optimized", "optimizedTwice" or "enhanced"
  table,          \* rows of a violation table of the HTML report, header first
  groupedRows,    \* const groupedRows of the first optimizeViolationTables()
  optimized,      \* rows of the table after optimizeViolationTables()
  optimizedTwice, \* rows of the table after a second optimizeViolationTables()
  reportScreenshots, \* argument screenshotData of generateEnhancedReport()
  enhancedReport, \* return value of generateEnhancedReport()
  junitPc,        \* "idle", "input" or "generated"
  junitResults,   \* argument results of generateJUnitReport()
  junitReport,    \* testSuites[0] of generateJUnitReport()
  sarifReport,    \* runs[0] of generateSARIFReport(): rules and results
  summaryPc,      \* "idle", "input" or "calculated"
  summaryResults, \* argument results of calculateSummaryStats()
  summaryStats,   \* return value of calculateSummaryStats()
  clipPc,         \* "idle", "input" or "clipped"
  boundingBox,    \* const boundingBox of captureElementScreenshot()
  screenshotArea, \* const screenshotArea, the clip of page.screenshot()
  elementBounds   \* argument elementBounds of addHighlightOverlay()

batchVars == <<batchProgress, urls, reqContinue, pc, i, browser, context,
               page, openPages, attempted, err, results, includeScreenshots,
               screenshotData>>
pollVars == <<pollCode, lastPoll>>
ciVars == <<ciPc, ciUrls, ciOptions, ciResults, overallSuccess, ciI, ciBrowser,
            ciContext, ciPage, ciOpenPages, ciAttempted, ciViolations,
            ciResponse>>

singleVars == <<tuPc, tuUrl, tuOptions, tuBrowser, tuViolations,
                tuScreenshotData, tuResponse>>
capVars == <<capPc, capNodes, violationIndex, nodeIndex, capImage, capFiles,
             capData, capLog>>
reportVars == <<reportPc, table, groupedRows, optimized, optimizedTwice,
                reportScreenshots, enhancedReport>>
junitVars == <<junitPc, junitResults, junitReport, sarifReport>>
summaryVars == <<summaryPc, summaryResults, summaryStats>>
clipVars == <<clipPc, boundingBox, screenshotArea, elementBounds>>
pureVars == <<summaryVars, clipVars>>
auxVars == <<singleVars, capVars, reportVars, junitVars, pureVars>>
serverVars == <<batchVars, pollVars, ciVars>>
notSingle == <<serverVars, capVars, reportVars, junitVars, pureVars>>
notCapture == <<serverVars, singleVars, reportVars, junitVars, pureVars>>
notReport == <<serverVars, singleVars, capVars, junitVars, pureVars>>
notJunit == <<serverVars, singleVars, capVars, reportVars, pureVars>>
notSummary == <<serverVars, singleVars, capVars, reportVars, junitVars,
                clipVars>>
notClip == <<serverVars, singleVars, capVars, reportVars, junitVars,
             summaryVars>>

\* ------------------------------------------------------------ status text
Testing(url) == "Testing " \o url

CompletedOf(done, total) ==
  "Completed " \o ToString(done) \o "/" \o ToString(total) \o " URLs"

NoError == "undefined"

\* ---------------------------------------------------------------- results
summary(url, violations) ==
  [url |-> url, status |-> "completed", violations |-> violations,
   error |-> NoError]

failedResult(url, message) ==
  [url |-> url, status |-> "failed", violations |-> 0, error |-> message]

\* ------------------------------------------------ messages of thrown errors
LaunchError == "browserType.launch: Executable doesn't exist"
NewContextError == "browser.newContext: Target closed"
NewPageError == "context.newPage: Target closed"
GotoError == "page.goto: Timeout 30000ms exceeded"
AnalyzeError == "axe.run failed"
PageCloseError == "page.close: Target closed"
GenerateError == "report generation failed"
WriteFileError == "ENOSPC: no space left on device"
BrowserCloseError == "browser.close: Target closed"

Set_Shared(f, r, v) == [x \in DOMAIN f |-> v]

Set(f, r, v) == [f EXCEPT ![r] = v]

\* No CI single-URL request was made.
SingleInit ==
  /\ tuPc = "idle"
  /\ tuUrl = ""
  /\ tuOptions = [failOnViolations |-> TRUE, maxViolations |-> 0,
                  includeScreenshots |-> FALSE, format |-> "json"]
  /\ tuBrowser = "null"
  /\ tuViolations = 0
  /\ tuScreenshotData = "null"
  /\ tuResponse = [code |-> 0, success |-> "absent", body |-> "none",
                   details |-> NoError]

\* captureViolationScreenshots() was not called.
CaptureInit ==
  /\ capPc = "idle"
  /\ capNodes = <<>>
  /\ violationIndex = 0
  /\ nodeIndex = 0
  /\ capImage = "none"
  /\ capFiles = <<>>
  /\ capData = <<>>
  /\ capLog = ""

\* A report whose violation table has rows t, before it is optimized.
\* screenshotData is null when screenshots are disabled.
NoScreenshotData == [null |-> TRUE, violationScreenshots |-> 0]

ReportInit(t) ==
  /\ reportPc = "input"
  /\ table = t
  /\ groupedRows = <<>>
  /\ optimized = <<>>
  /\ optimizedTwice = <<>>
  /\ reportScreenshots = NoScreenshotData
  /\ enhancedReport = [table |-> <<>>, screenshots |-> 0]

NoResults == [violations |-> <<>>, passes |-> <<>>]

NoReport == [tests |-> 0, failures |-> 0, testcases |-> <<>>]

NoSarif == [version |-> "", rules |-> <<>>, results |-> <<>>]

\* generateJUnitReport() and generateSARIFReport() were not called.
JunitInit ==
  /\ junitPc = "idle"
  /\ junitResults = NoResults
  /\ junitReport = NoReport
  /\ sarifReport = NoSarif

ServerInit(ids) ==
  /\ batchProgress = [r \in {} |-> 0]
  /\ urls = [r \in ids |-> <<>>]
  /\ reqContinue = [r \in ids |-> TRUE]
  /\ pc = [r \in ids |-> "idle"]
  /\ i = [r \in ids |-> 0]
  /\ browser = [r \in ids |-> "null"]
  /\ context = [r \in ids |-> "null"]
  /\ page = [r \in ids |-> 0]
  /\ openPages = [r \in ids |-> {}]
  /\ attempted = [r \in ids |-> {}]
  /\ err = [r \in ids |-> NoError]
  /\ results = [r \in ids |-> 0]
  /\ includeScreenshots = [r \in ids |-> TRUE]
  /\ screenshotData = [r \in ids |-> "null"]
  /\ pollCode = [r \in ids \cup UnknownIds |-> 0]
  /\ lastPoll = [r \in ids \cup UnknownIds |-> <<>>]
  /\ ciPc = "idle"
  /\ ciUrls = <<>>
  /\ ciOptions = [failOnViolations |-> TRUE, maxViolations |-> 0,
                  continueOnFailure |-> FALSE]
  /\ ciResults = <<>>
  /\ overallSuccess = TRUE
  /\ ciI = 0
  /\ ciBrowser = "null"
  /\ ciContext = "null"
  /\ ciPage = 0
  /\ ciOpenPages = {}
  /\ ciAttempted = {}
  /\ ciViolations = 0
  /\ ciResponse = [code |-> 0, success |-> FALSE, totalUrls |-> 0,
                   testedUrls |-> 0, passedUrls |-> 0, failedUrls |-> 0]

NoStats == [score |-> -1]

\* calculateSummaryStats() was not called.
SummaryInit ==
  /\ summaryPc = "idle"
  /\ summaryResults = NoResults
  /\ summaryStats = NoStats

NoBox == [x |-> 0, y |-> 0, width |-> 0, height |-> 0]

\* captureElementScreenshot() was not called.
ClipInit ==
  /\ clipPc = "idle"
  /\ boundingBox = NoBox
  /\ screenshotArea = NoBox
  /\ elementBounds = NoBox

PureInit == SummaryInit /\ ClipInit

InitFor(ids) ==
  /\ ServerInit(ids) /\ SingleInit /\ CaptureInit /\ ReportInit(<<>>)
  /\ JunitInit /\ PureInit

Init == InitFor(BatchIds)

\* The two POST handlers share no state: the CI bulk handler works on its own
\* locals only.  Their steps therefore commute, and the model serves a CI bulk
\* request only while no batch request was made, and the other way round.
BatchIdle == \A r \in DOMAIN pc : pc[r] = "idle"

CiIdle == ciPc = "idle"

\* --------------------------------------------------- POST /api/batch-test
\* Request handler up to the scheduling of the background task.
BatchTest(r, us, cof, shots) ==
  /\ pc[r] = "idle"
  /\ CiIdle
  /\ urls' = Set(urls, r, us)
  /\ reqContinue' = Set(reqContinue, r, cof)
  /\ includeScreenshots' = Set(includeScreenshots, r, shots)
  /\ IF Len(us) = 0
       THEN /\ pc' = Set(pc, r, "rejected")
            /\ UNCHANGED batchProgress
       ELSE /\ batchProgress' = batchProgress @@
                 (r :> [batchId |-> r, status |-> "running",
                        totalUrls |-> Len(us), completedUrls |-> 0,
                        failedUrls |-> 0, results |-> <<>>,
                        endTime |-> FALSE, error |-> NoError])
            /\ pc' = Set(pc, r, "launch")
  /\ UNCHANGED <<i, browser, context, page, openPages, attempted, err,
                 results, screenshotData, pollVars, ciVars, auxVars>>

FinalStatus_AnyFailure(bp) ==
  IF bp.failedUrls > 0 THEN "failed" ELSE "completed"

\* Final status of the finally block.
FinalStatus(bp) ==
  IF bp.failedUrls = bp.totalUrls THEN "failed" ELSE "completed"

MarkCompleted_KeepStatus(r, bp) ==
  /\ batchProgress' = Set(batchProgress, r, [bp EXCEPT !.endTime = TRUE])
  /\ pc' = Set(pc, r, "done")

\* Last statements of the finally block, after the close calls.
MarkCompleted(r, bp) ==
  /\ batchProgress' = Set(batchProgress, r,
        [bp EXCEPT !.status = FinalStatus(bp), !.endTime = TRUE])
  /\ pc' = Set(pc, r, "done")

Finally_NestedClose(r, bp) ==
  IF context[r] # "null"
    THEN /\ batchProgress' = Set(batchProgress, r, bp)
         /\ pc' = Set(pc, r, "closeContext")
    ELSE MarkCompleted(r, bp)

\* The finally block up to its first await.
Finally(r, bp) ==
  IF context[r] # "null"
    THEN /\ batchProgress' = Set(batchProgress, r, bp)
         /\ pc' = Set(pc, r, "closeContext")
    ELSE IF browser[r] # "null"
      THEN /\ batchProgress' = Set(batchProgress, r, bp)
           /\ pc' = Set(pc, r, "closeBrowser")
      ELSE MarkCompleted(r, bp)

\* The outer catch block followed by the finally block.
OuterCatch(r, message) ==
  Finally(r, [batchProgress[r] EXCEPT !.status = "failed",
                                      !.error = message])

\* The statement after the per-URL try/catch, the loop increment and test,
\* and the start of the next iteration up to context.newPage().  The
\* block-scoped locals of the iteration (page, results, screenshotData,
\* error) go out of scope.
EndIteration(r, bp) ==
  LET bp1 == [bp EXCEPT !.status = CompletedOf(bp.completedUrls, bp.totalUrls)]
      j == i[r] + 1
  IN /\ i' = Set(i, r, j)
     /\ page' = Set(page, r, 0)
     /\ results' = Set(results, r, 0)
     /\ screenshotData' = Set(screenshotData, r, "null")
     /\ err' = Set(err, r, NoError)
     /\ IF j <= Len(urls[r])
          THEN /\ batchProgress' = Set(batchProgress, r,
                     [bp1 EXCEPT !.status = Testing(urls[r][j])])
               /\ attempted' = Set(attempted, r, attempted[r] \cup {j})
               /\ pc' = Set(pc, r, "newPage")
          ELSE /\ Finally(r, bp1)
               /\ UNCHANGED attempted

RecordFailure_NotCompleted(r, message) ==
  LET bp == batchProgress[r]
  IN EndIteration(r,
       [bp EXCEPT !.results = Append(@, failedResult(urls[r][i[r]], message)),
                  !.failedUrls = @ + 1])

\* Per-URL catch block after its page clean-up.
RecordFailure(r, message) ==
  LET bp == batchProgress[r]
  IN EndIteration(r,
       [bp EXCEPT !.results = Append(@, failedResult(urls[r][i[r]], message)),
                  !.failedUrls = @ + 1,
                  !.completedUrls = @ + 1])

RecordSuccess_Overwrite(r) ==
  LET bp == batchProgress[r]
  IN EndIteration(r,
       [bp EXCEPT !.results = <<summary(urls[r][i[r]], results[r])>>,
                  !.completedUrls = @ + 1])

RecordSuccess_Unshift(r) ==
  LET bp == batchProgress[r]
  IN EndIteration(r,
       [bp EXCEPT !.results = <<summary(urls[r][i[r]], results[r])>> \o @,
                  !.completedUrls = @ + 1])

\* End of the per-URL try block.
RecordSuccess(r) ==
  LET bp == batchProgress[r]
  IN EndIteration(r,
       [bp EXCEPT !.results = Append(@, summary(urls[r][i[r]], results[r])),
                  !.completedUrls = @ + 1])

LaunchReturns(r) ==
  /\ pc[r] = "launch"
  /\ browser' = Set(browser, r, "open")
  /\ pc' = Set(pc, r, "newContext")
  /\ UNCHANGED <<batchProgress, urls, reqContinue, i, context, page,
                 openPages, attempted, err, results, includeScreenshots,
                 screenshotData, pollVars, ciVars, auxVars>>

LaunchThrows(r) ==
  /\ pc[r] = "launch"
  /\ OuterCatch(r, LaunchError)
  /\ UNCHANGED <<urls, reqContinue, i, browser, context, page, openPages,
                 attempted, err, results, includeScreenshots, screenshotData,
                 pollVars, ciVars, auxVars>>

NewContextReturns(r) ==
  /\ pc[r] = "newContext"
  /\ context' = Set(context, r, "open")
  /\ i' = Set(i, r, 1)
  /\ batchProgress' = Set(batchProgress, r,
        [batchProgress[r] EXCEPT !.status = Testing(urls[r][1])])
  /\ attempted' = Set(attempted, r, {1})
  /\ pc' = Set(pc, r, "newPage")
  /\ UNCHANGED <<urls, reqContinue, browser, page, openPages, err, results,
                 includeScreenshots, screenshotData, pollVars, ciVars, auxVars>>

NewContextThrows(r) ==
  /\ pc[r] = "newContext"
  /\ OuterCatch(r, NewContextError)
  /\ UNCHANGED <<urls, reqContinue, i, browser, context, page, openPages,
                 attempted, err, results, includeScreenshots, screenshotData,
                 pollVars, ciVars, auxVars>>

PerUrlCatch_NoCleanup(r, message) == RecordFailure(r, message)

PerUrlCatch_Rethrow(r, message) ==
  /\ OuterCatch(r, message)
  /\ UNCHANGED <<err, i, page, attempted, results, screenshotData>>

\* The per-URL catch block up to its first await: page.close() when the page
\* is still referenced, the failed result otherwise.
PerUrlCatch(r, message) ==
  IF page[r] # 0
    THEN /\ err' = Set(err, r, message)
         /\ pc' = Set(pc, r, "catchClose")
         /\ UNCHANGED <<batchProgress, i, page, attempted, results,
                        screenshotData>>
    ELSE RecordFailure(r, message)

NewPageReturns(r) ==
  /\ pc[r] = "newPage"
  /\ page' = Set(page, r, i[r])
  /\ openPages' = Set(openPages, r, openPages[r] \cup {i[r]})
  /\ pc' = Set(pc, r, "goto")
  /\ UNCHANGED <<batchProgress, urls, reqContinue, i, browser, context,
                 attempted, err, results, includeScreenshots, screenshotData,
                 pollVars, ciVars, auxVars>>

NewPageThrows(r) ==
  /\ pc[r] = "newPage"
  /\ PerUrlCatch(r, NewPageError)
  /\ UNCHANGED <<urls, reqContinue, browser, context, openPages,
                 includeScreenshots, pollVars, ciVars, auxVars>>

GotoReturns(r) ==
  /\ pc[r] = "goto"
  /\ pc' = Set(pc, r, "analyze")
  /\ UNCHANGED <<batchProgress, urls, reqContinue, i, browser, context, page,
                 openPages, attempted, err, results, includeScreenshots,
                 screenshotData, pollVars, ciVars, auxVars>>

GotoThrows(r) ==
  /\ pc[r] = "goto"
  /\ PerUrlCatch(r, GotoError)
  /\ UNCHANGED <<urls, reqContinue, browser, context, openPages,
                 includeScreenshots, pollVars, ciVars, auxVars>>

AnalyzeReturns(r, violations) ==
  /\ pc[r] = "analyze"
  /\ results' = Set(results, r, violations)
  /\ pc' = Set(pc, r, IF includeScreenshots[r] /\ violations > 0
                        THEN "capture" ELSE "pageClose")
  /\ UNCHANGED <<batchProgress, urls, reqContinue, i, browser, context, page,
                 openPages, attempted, err, includeScreenshots,
                 screenshotData, pollVars, ciVars, auxVars>>

AnalyzeThrows(r) ==
  /\ pc[r] = "analyze"
  /\ PerUrlCatch(r, AnalyzeError)
  /\ UNCHANGED <<urls, reqContinue, browser, context, openPages,
                 includeScreenshots, pollVars, ciVars, auxVars>>

\* captureViolationScreenshots() has returned, with an evidence record for
\* the nodes whose capture succeeded and none for the others.
CaptureReturns(r) ==
  /\ pc[r] = "capture"
  /\ screenshotData' = Set(screenshotData, r, "data")
  /\ pc' = Set(pc, r, "pageClose")
  /\ UNCHANGED <<batchProgress, urls, reqContinue, i, browser, context, page,
                 openPages, attempted, err, results, includeScreenshots,
                 pollVars, ciVars, auxVars>>

CaptureThrows_Fails(r) ==
  /\ pc[r] = "capture"
  /\ PerUrlCatch(r, "mkdir: permission denied")
  /\ UNCHANGED <<urls, reqContinue, browser, context, openPages,
                 includeScreenshots, pollVars, ciVars, auxVars>>

\* captureViolationScreenshots() has thrown (fs.mkdir or the full-page
\* screenshot failed); the inner catch only logs a warning.
CaptureThrows(r) ==
  /\ pc[r] = "capture"
  /\ pc' = Set(pc, r, "pageClose")
  /\ UNCHANGED <<batchProgress, urls, reqContinue, i, browser, context, page,
                 openPages, attempted, err, results, includeScreenshots,
                 screenshotData, pollVars, ciVars, auxVars>>

PageCloseReturns(r) ==
  /\ pc[r] = "pageClose"
  /\ openPages' = Set(openPages, r, openPages[r] \ {page[r]})
  /\ page' = Set(page, r, 0)
  /\ pc' = Set(pc, r, "generate")
  /\ UNCHANGED <<batchProgress, urls, reqContinue, i, browser, context,
                 attempted, err, results, includeScreenshots, screenshotData,
                 pollVars, ciVars, auxVars>>

PageCloseThrows(r) ==
  /\ pc[r] = "pageClose"
  /\ openPages' = Set(openPages, r, openPages[r] \ {page[r]})
  /\ PerUrlCatch(r, PageCloseError)
  /\ UNCHANGED <<urls, reqContinue, browser, context, includeScreenshots,
                 pollVars, ciVars, auxVars>>

GenerateReturns(r) ==
  /\ pc[r] = "generate"
  /\ pc' = Set(pc, r, "writeFile")
  /\ UNCHANGED <<batchProgress, urls, reqContinue, i, browser, context, page,
                 openPages, attempted, err, results, includeScreenshots,
                 screenshotData, pollVars, ciVars, auxVars>>

GenerateThrows(r) ==
  /\ pc[r] = "generate"
  /\ PerUrlCatch(r, GenerateError)
  /\ UNCHANGED <<urls, reqContinue, browser, context, openPages,
                 includeScreenshots, pollVars, ciVars, auxVars>>

WriteFileReturns(r) ==
  /\ pc[r] = "writeFile"
  /\ RecordSuccess(r)
  /\ UNCHANGED <<urls, reqContinue, browser, context, openPages,
                 includeScreenshots, pollVars, ciVars, auxVars>>

WriteFileThrows(r) ==
  /\ pc[r] = "writeFile"
  /\ PerUrlCatch(r, WriteFileError)
  /\ UNCHANGED <<urls, reqContinue, browser, context, openPages,
                 includeScreenshots, pollVars, ciVars, auxVars>>

\* page.close() of the per-URL catch block has returned or thrown.
CatchCloseSettles(r) ==
  /\ pc[r] = "catchClose"
  /\ openPages' = Set(openPages, r, openPages[r] \ {page[r]})
  /\ RecordFailure(r, err[r])
  /\ UNCHANGED <<urls, reqContinue, browser, context, includeScreenshots,
                 pollVars, ciVars, auxVars>>

\* context.close() of the finally block has returned or thrown.
ContextCloseSettles(r) ==
  /\ pc[r] = "closeContext"
  /\ context' = Set(context, r, "closed")
  /\ IF browser[r] # "null"
       THEN /\ pc' = Set(pc, r, "closeBrowser")
            /\ UNCHANGED batchProgress
       ELSE MarkCompleted(r, batchProgress[r])
  /\ UNCHANGED <<urls, reqContinue, i, browser, page, openPages, attempted,
                 err, results, includeScreenshots, screenshotData, pollVars, ciVars, auxVars>>

\* browser.close() of the finally block has returned or thrown.
BrowserCloseSettles_Escapes(r) ==
  /\ pc[r] = "closeBrowser"
  /\ browser' = Set(browser, r, "closed")
  /\ pc' = Set(pc, r, "done")
  /\ UNCHANGED <<batchProgress, urls, reqContinue, i, context, page,
                 openPages, attempted, err, results, includeScreenshots,
                 screenshotData, pollVars, ciVars, auxVars>>

BrowserCloseSettles(r) ==
  /\ pc[r] = "closeBrowser"
  /\ browser' = Set(browser, r, "closed")
  /\ MarkCompleted(r, batchProgress[r])
  /\ UNCHANGED <<urls, reqContinue, i, context, page, openPages, attempted,
                 err, results, includeScreenshots, screenshotData, pollVars, ciVars, auxVars>>

\* ------------------------------------------ GET /api/batch-status/:batchId
BatchStatus_NotFound(id) ==
  /\ pollCode' = Set(pollCode, id, 404)
  /\ UNCHANGED <<lastPoll, batchVars, ciVars, auxVars>>

BatchStatus(id) ==
  /\ IF id \notin DOMAIN batchProgress
       THEN /\ pollCode' = Set(pollCode, id, 404)
            /\ UNCHANGED lastPoll
       ELSE /\ pollCode' = Set(pollCode, id, 200)
            /\ lastPoll' = Set(lastPoll, id, <<batchProgress[id]>>)
  /\ UNCHANGED <<batchVars, ciVars, auxVars>>

\* ------------------------------------------------- POST /api/ci/test-urls
CiRespond(code, success) ==
  /\ ciResponse' = [code |-> code, success |-> success,
                    totalUrls |-> 0, testedUrls |-> 0, passedUrls |-> 0,
                    failedUrls |-> 0]
  /\ ciPc' = "responded"

\* Validation and the handler up to chromium.launch().
CiTestUrls(us, failOn, maxV, cof) ==
  /\ ciPc = "idle"
  /\ BatchIdle
  /\ ciUrls' = us
  /\ ciOptions' = [failOnViolations |-> failOn, maxViolations |-> maxV,
                   continueOnFailure |-> cof]
  /\ IF Len(us) = 0
       THEN CiRespond(400, FALSE)
       ELSE /\ ciPc' = "launch"
            /\ UNCHANGED ciResponse
  /\ ciResults' = <<>>
  /\ overallSuccess' = TRUE
  /\ UNCHANGED <<ciI, ciBrowser, ciContext, ciPage, ciOpenPages, ciAttempted,
                 ciViolations, batchVars, pollVars, auxVars>>

\* The outer catch block: 500 response.
CiOuterCatch == CiRespond(500, FALSE)

\* Leaving the loop: browser.close() is called.
CiAfterLoop == ciPc' = "closeBrowser"

\* The for-of loop moves to the next URL or ends; the block-scoped locals of
\* the iteration go out of scope.
CiNextUrl ==
  LET j == ciI + 1
  IN /\ ciPage' = 0
     /\ ciViolations' = 0
     /\ IF j <= Len(ciUrls)
          THEN /\ ciI' = j
               /\ ciAttempted' = ciAttempted \cup {j}
               /\ ciPc' = "newPage"
          ELSE /\ CiAfterLoop
               /\ UNCHANGED <<ciI, ciAttempted>>

\* The break statements leave the loop.
CiBreak ==
  /\ ciPage' = 0
  /\ ciViolations' = 0
  /\ CiAfterLoop
  /\ UNCHANGED <<ciI, ciAttempted>>

CiCatch_NeverBreak(message) ==
  /\ ciResults' = Append(ciResults,
        [url |-> ciUrls[ciI], success |-> FALSE, violations |-> 0,
         error |-> message])
  /\ overallSuccess' = FALSE
  /\ CiNextUrl

CiCatch_AlwaysBreak(message) ==
  /\ ciResults' = Append(ciResults,
        [url |-> ciUrls[ciI], success |-> FALSE, violations |-> 0,
         error |-> message])
  /\ overallSuccess' = FALSE
  /\ CiBreak

\* The per-URL catch block.
CiCatch(message) ==
  /\ ciResults' = Append(ciResults,
        [url |-> ciUrls[ciI], success |-> FALSE, violations |-> 0,
         error |-> message])
  /\ overallSuccess' = FALSE
  /\ IF ~ciOptions.continueOnFailure THEN CiBreak ELSE CiNextUrl

CiLaunchReturns ==
  /\ ciPc = "launch"
  /\ ciBrowser' = "open"
  /\ ciPc' = "newContext"
  /\ UNCHANGED <<ciUrls, ciOptions, ciResults, overallSuccess, ciI, ciContext,
                 ciPage, ciOpenPages, ciAttempted, ciViolations, ciResponse,
                 batchVars, pollVars, auxVars>>

CiLaunchThrows ==
  /\ ciPc = "launch"
  /\ CiOuterCatch
  /\ UNCHANGED <<ciUrls, ciOptions, ciResults, overallSuccess, ciI, ciBrowser,
                 ciContext, ciPage, ciOpenPages, ciAttempted, ciViolations,
                 batchVars, pollVars, auxVars>>

CiNewContextReturns ==
  /\ ciPc = "newContext"
  /\ ciContext' = "open"
  /\ CiNextUrl
  /\ UNCHANGED <<ciUrls, ciOptions, ciResults, overallSuccess, ciBrowser,
                 ciOpenPages, ciResponse, batchVars, pollVars, auxVars>>

CiNewContextThrows ==
  /\ ciPc = "newContext"
  /\ CiOuterCatch
  /\ UNCHANGED <<ciUrls, ciOptions, ciResults, overallSuccess, ciI, ciBrowser,
                 ciContext, ciPage, ciOpenPages, ciAttempted, ciViolations,
                 batchVars, pollVars, auxVars>>

CiNewPageReturns ==
  /\ ciPc = "newPage"
  /\ ciPage' = ciI
  /\ ciOpenPages' = ciOpenPages \cup {ciI}
  /\ ciPc' = "goto"
  /\ UNCHANGED <<ciUrls, ciOptions, ciResults, overallSuccess, ciI, ciBrowser,
                 ciContext, ciAttempted, ciViolations, ciResponse, batchVars,
                 pollVars, auxVars>>

CiNewPageThrows ==
  /\ ciPc = "newPage"
  /\ CiCatch(NewPageError)
  /\ UNCHANGED <<ciUrls, ciOptions, ciBrowser, ciContext, ciOpenPages,
                 ciResponse, batchVars, pollVars, auxVars>>

CiGotoReturns ==
  /\ ciPc = "goto"
  /\ ciPc' = "analyze"
  /\ UNCHANGED <<ciUrls, ciOptions, ciResults, overallSuccess, ciI, ciBrowser,
                 ciContext, ciPage, ciOpenPages, ciAttempted, ciViolations,
                 ciResponse, batchVars, pollVars, auxVars>>

CiGotoThrows ==
  /\ ciPc = "goto"
  /\ CiCatch(GotoError)
  /\ UNCHANGED <<ciUrls, ciOptions, ciBrowser, ciContext, ciOpenPages,
                 ciResponse, batchVars, pollVars, auxVars>>

CiAnalyzeReturns(violations) ==
  /\ ciPc = "analyze"
  /\ ciViolations' = violations
  /\ ciPc' = "pageClose"
  /\ UNCHANGED <<ciUrls, ciOptions, ciResults, overallSuccess, ciI, ciBrowser,
                 ciContext, ciPage, ciOpenPages, ciAttempted, ciResponse,
                 batchVars, pollVars, auxVars>>

CiAnalyzeThrows ==
  /\ ciPc = "analyze"
  /\ CiCatch(AnalyzeError)
  /\ UNCHANGED <<ciUrls, ciOptions, ciBrowser, ciContext, ciOpenPages,
                 ciResponse, batchVars, pollVars, auxVars>>

\* page.close() returned: the rest of the per-URL try block.
CiPageCloseReturns ==
  LET urlSuccess == \/ ~ciOptions.failOnViolations
                    \/ ciViolations <= ciOptions.maxViolations
  IN /\ ciPc = "pageClose"
     /\ ciOpenPages' = ciOpenPages \ {ciPage}
     /\ overallSuccess' = IF ~urlSuccess THEN FALSE ELSE overallSuccess
     /\ ciResults' = Append(ciResults,
           [url |-> ciUrls[ciI], success |-> urlSuccess,
            violations |-> ciViolations, error |-> NoError])
     /\ IF ~urlSuccess /\ ~ciOptions.continueOnFailure
          THEN CiBreak ELSE CiNextUrl
     /\ UNCHANGED <<ciUrls, ciOptions, ciBrowser, ciContext, ciResponse,
                    batchVars, pollVars, auxVars>>

CiPageCloseThrows ==
  /\ ciPc = "pageClose"
  /\ ciOpenPages' = ciOpenPages \ {ciPage}
  /\ CiCatch(PageCloseError)
  /\ UNCHANGED <<ciUrls, ciOptions, ciBrowser, ciContext, ciResponse,
                 batchVars, pollVars, auxVars>>

CountSuccess_All(outcomes, value) == Len(outcomes)

\* results.filter(r => r.success).length, results.filter(r => !r.success).length
CountSuccess(outcomes, value) ==
  Cardinality({k \in 1..Len(outcomes) : outcomes[k].success = value})

\* browser.close() returned: the response with its summary.
CiBrowserCloseReturns ==
  /\ ciPc = "closeBrowser"
  /\ ciBrowser' = "closed"
  /\ ciResponse' = [code |-> IF ~overallSuccess THEN 422 ELSE 200,
                    success |-> overallSuccess,
                    totalUrls |-> Len(ciUrls),
                    testedUrls |-> Len(ciResults),
                    passedUrls |-> CountSuccess(ciResults, TRUE),
                    failedUrls |-> CountSuccess(ciResults, FALSE)]
  /\ ciPc' = "responded"
  /\ UNCHANGED <<ciUrls, ciOptions, ciResults, overallSuccess, ciI,
                 ciContext, ciPage, ciOpenPages, ciAttempted, ciViolations,
                 batchVars, pollVars, auxVars>>

CiBrowserCloseThrows ==
  /\ ciPc = "closeBrowser"
  /\ ciBrowser' = "closed"
  /\ CiOuterCatch
  /\ UNCHANGED <<ciUrls, ciOptions, ciResults, overallSuccess, ciI, ciContext,
                 ciPage, ciOpenPages, ciAttempted, ciViolations, batchVars,
                 pollVars, auxVars>>

CiNext ==
  \/ \E us \in UrlSeqs(MaxUrls), failOn \in BOOLEAN,
        maxV \in 0..MaxViolations, cof \in BOOLEAN :
       CiTestUrls(us, failOn, maxV, cof)
  \/ CiLaunchReturns
  \/ CiLaunchThrows
  \/ CiNewContextReturns
  \/ CiNewContextThrows
  \/ CiNewPageReturns
  \/ CiNewPageThrows
  \/ CiGotoReturns
  \/ CiGotoThrows
  \/ \E violations \in 0..MaxViolations : CiAnalyzeReturns(violations)
  \/ CiAnalyzeThrows
  \/ CiPageCloseReturns
  \/ CiPageCloseThrows
  \/ CiBrowserCloseReturns
  \/ CiBrowserCloseThrows

vars == <<batchVars, pollVars, ciVars, auxVars>>

BatchNext ==
  \E r \in BatchIds :
    \/ \E us \in UrlSeqs(MaxUrls), cof \in BOOLEAN, shots \in BOOLEAN :
         BatchTest(r, us, cof, shots)
    \/ LaunchReturns(r)
    \/ LaunchThrows(r)
    \/ NewContextReturns(r)
    \/ NewContextThrows(r)
    \/ NewPageReturns(r)
    \/ NewPageThrows(r)
    \/ GotoReturns(r)
    \/ GotoThrows(r)
    \/ \E violations \in 0..MaxViolations : AnalyzeReturns(r, violations)
    \/ AnalyzeThrows(r)
    \/ CaptureReturns(r)
    \/ CaptureThrows(r)
    \/ PageCloseReturns(r)
    \/ PageCloseThrows(r)
    \/ GenerateReturns(r)
    \/ GenerateThrows(r)
    \/ WriteFileReturns(r)
    \/ WriteFileThrows(r)
    \/ CatchCloseSettles(r)
    \/ ContextCloseSettles(r)
    \/ BrowserCloseSettles(r)

PollNext == \E id \in BatchIds \cup UnknownIds : BatchStatus(id)

Next == BatchNext \/ PollNext \/ CiNext

\* A step of run r other than its request: the settlement (return or
\* throw) of the external call the run is awaiting, with the code up to the
\* next await.
RunStep(r) ==
  \/ LaunchReturns(r)
  \/ LaunchThrows(r)
  \/ NewContextReturns(r)
  \/ NewContextThrows(r)
  \/ NewPageReturns(r)
  \/ NewPageThrows(r)
  \/ GotoReturns(r)
  \/ GotoThrows(r)
  \/ \E violations \in 0..MaxViolations : AnalyzeReturns(r, violations)
  \/ AnalyzeThrows(r)
  \/ CaptureReturns(r)
  \/ CaptureThrows(r)
  \/ PageCloseReturns(r)
  \/ PageCloseThrows(r)
  \/ GenerateReturns(r)
  \/ GenerateThrows(r)
  \/ WriteFileReturns(r)
  \/ WriteFileThrows(r)
  \/ CatchCloseSettles(r)
  \/ ContextCloseSettles(r)
  \/ BrowserCloseSettles(r)

\* Every external call a run awaits eventually returns or throws.
CallsSettle == \A r \in BatchIds : WF_vars(RunStep(r))

\* The batch handler alone: polls and the CI handlers write nothing a run
\* reads.
SpecLive == Init /\ [][BatchNext]_vars /\ CallsSettle

Spec == Init /\ [][Next]_vars

\* --------------------------------------------------- POST /api/ci/test-url
Formats == {"json", "junit", "sarif"}

TuRespond(code, success, body, details) ==
  /\ tuResponse' = [code |-> code, success |-> success, body |-> body,
                    details |-> details]
  /\ tuPc' = "responded"

\* Request handler up to chromium.launch().
CiTestUrl(url, failOn, maxV, shots, format) ==
  /\ tuPc = "idle"
  /\ tuUrl' = url
  /\ tuOptions' = [failOnViolations |-> failOn, maxViolations |-> maxV,
                   includeScreenshots |-> shots, format |-> format]
  /\ IF url = ""
       THEN TuRespond(400, "false", "error", NoError)
       ELSE /\ tuPc' = "launch"
            /\ UNCHANGED tuResponse
  /\ UNCHANGED <<tuBrowser, tuViolations, tuScreenshotData, notSingle>>

\* The catch block of the handler.
TuCatch(message) ==
  /\ TuRespond(500, "false", "error", message)
  /\ UNCHANGED <<tuUrl, tuOptions, tuBrowser, tuViolations,
                 tuScreenshotData, notSingle>>

TuLaunchReturns ==
  /\ tuPc = "launch"
  /\ tuBrowser' = "open"
  /\ tuPc' = "newContext"
  /\ UNCHANGED <<tuUrl, tuOptions, tuViolations, tuScreenshotData,
                 tuResponse, notSingle>>

TuLaunchThrows == tuPc = "launch" /\ TuCatch(LaunchError)

TuNewContextReturns ==
  /\ tuPc = "newContext"
  /\ tuPc' = "newPage"
  /\ UNCHANGED <<tuUrl, tuOptions, tuBrowser, tuViolations,
                 tuScreenshotData, tuResponse, notSingle>>

TuNewContextThrows == tuPc = "newContext" /\ TuCatch(NewContextError)

TuNewPageReturns ==
  /\ tuPc = "newPage"
  /\ tuPc' = "goto"
  /\ UNCHANGED <<tuUrl, tuOptions, tuBrowser, tuViolations,
                 tuScreenshotData, tuResponse, notSingle>>

TuNewPageThrows == tuPc = "newPage" /\ TuCatch(NewPageError)

TuGotoReturns ==
  /\ tuPc = "goto"
  /\ tuPc' = "analyze"
  /\ UNCHANGED <<tuUrl, tuOptions, tuBrowser, tuViolations,
                 tuScreenshotData, tuResponse, notSingle>>

TuGotoThrows == tuPc = "goto" /\ TuCatch(GotoError)

TuAnalyzeReturns(violations) ==
  /\ tuPc = "analyze"
  /\ tuViolations' = violations
  /\ tuPc' = IF tuOptions.includeScreenshots /\ violations > 0
               THEN "capture" ELSE "browserClose"
  /\ UNCHANGED <<tuUrl, tuOptions, tuBrowser, tuScreenshotData, tuResponse,
                 notSingle>>

TuAnalyzeThrows == tuPc = "analyze" /\ TuCatch(AnalyzeError)

TuCaptureReturns ==
  /\ tuPc = "capture"
  /\ tuScreenshotData' = "data"
  /\ tuPc' = "browserClose"
  /\ UNCHANGED <<tuUrl, tuOptions, tuBrowser, tuViolations, tuResponse,
                 notSingle>>

\* The inner catch only logs a warning.
TuCaptureThrows ==
  /\ tuPc = "capture"
  /\ tuPc' = "browserClose"
  /\ UNCHANGED <<tuUrl, tuOptions, tuBrowser, tuViolations,
                 tuScreenshotData, tuResponse, notSingle>>

\* const success = !failOnViolations || violationCount <= maxViolations
TuSuccess(failOn, maxV, violationCount) ==
  ~failOn \/ violationCount <= maxV

\* browser.close() has returned: the verdict and the response in the
\* requested format.
TuBrowserCloseReturns ==
  /\ tuPc = "browserClose"
  /\ tuBrowser' = "closed"
  /\ LET success == TuSuccess(tuOptions.failOnViolations,
                              tuOptions.maxViolations, tuViolations)
     IN IF tuOptions.format = "junit"
          THEN TuRespond(200, "absent", "junit", NoError)
          ELSE IF tuOptions.format = "sarif"
            THEN TuRespond(200, "absent", "sarif", NoError)
            ELSE TuRespond(IF success THEN 200 ELSE 422,
                           IF success THEN "true" ELSE "false", "json",
                           NoError)
  /\ UNCHANGED <<tuUrl, tuOptions, tuViolations, tuScreenshotData, notSingle>>

TuBrowserCloseThrows == tuPc = "browserClose" /\ TuCatch(BrowserCloseError)

NextSingle ==
  \/ \E url \in Urls \cup {""}, failOn \in BOOLEAN, maxV \in 0..MaxViolations,
        shots \in BOOLEAN, format \in Formats :
       CiTestUrl(url, failOn, maxV, shots, format)
  \/ TuLaunchReturns
  \/ TuLaunchThrows
  \/ TuNewContextReturns
  \/ TuNewContextThrows
  \/ TuNewPageReturns
  \/ TuNewPageThrows
  \/ TuGotoReturns
  \/ TuGotoThrows
  \/ \E violations \in 0..MaxViolations : TuAnalyzeReturns(violations)
  \/ TuAnalyzeThrows
  \/ TuCaptureReturns
  \/ TuCaptureThrows
  \/ TuBrowserCloseReturns
  \/ TuBrowserCloseThrows

SpecSingle == Init /\ [][NextSingle]_vars

\* ------------------------- ScreenshotCapture.captureViolationScreenshots
MaxNodes == 2

NodeCounts == UNION {[1..k -> 1..MaxNodes] : k \in 0..MaxViolations}

MkdirError == "EACCES: permission denied, mkdir"
ScreenshotError == "page.screenshot: Target closed"
IsVisibleError == "locator.isVisible: Target closed"
ScrollError == "locator.scrollIntoViewIfNeeded: Element is not attached"
WaitError == "page.waitForTimeout: Target closed"
BoundingBoxError == "locator.boundingBox: Target closed"
MetadataError == "Input buffer contains unsupported image format"
CompositeError == "composite: image to composite must have same dimensions"
NotVisible == "is not visible"
NoBoundingBox == "Could not get bounding box"

CaptureViolationScreenshots(nodes) ==
  /\ capPc = "idle"
  /\ capNodes' = nodes
  /\ capPc' = "mkdir"
  /\ UNCHANGED <<violationIndex, nodeIndex, capImage, capFiles, capData,
                 capLog, notCapture>>

\* An error of fs.mkdir or of the full-page screenshot leaves the function.
CapThrow(message) ==
  /\ capPc' = "thrown"
  /\ capLog' = message
  /\ UNCHANGED <<capNodes, violationIndex, nodeIndex, capImage, capFiles,
                 capData, notCapture>>

MkdirReturns ==
  /\ capPc = "mkdir"
  /\ capPc' = "fullPage"
  /\ UNCHANGED <<capNodes, violationIndex, nodeIndex, capImage, capFiles,
                 capData, capLog, notCapture>>

MkdirThrows == capPc = "mkdir" /\ CapThrow(MkdirError)

\* Both for loops from the position after node <<v, n>>, up to the first
\* await of the next node's captureElementScreenshot() or to the return.
NextNode(v, n) ==
  LET more == {w \in 1..Len(capNodes) :
                 w > v \/ (w = v /\ n < capNodes[w])}
  IN IF more = {}
       THEN /\ capPc' = "returned"
            /\ UNCHANGED <<violationIndex, nodeIndex>>
       ELSE LET w == CHOOSE x \in more : \A y \in more : x <= y
            IN /\ violationIndex' = w
               /\ nodeIndex' = IF w = v THEN n + 1 ELSE 1
               /\ capPc' = "isVisible"

FullPageReturns ==
  /\ capPc = "fullPage"
  /\ NextNode(0, 0)
  /\ UNCHANGED <<capNodes, capImage, capFiles, capData, capLog, notCapture>>

FullPageThrows == capPc = "fullPage" /\ CapThrow(ScreenshotError)

\* captureElementScreenshot() returns null: no record, next node.
ReturnNull(message) ==
  /\ capLog' = message
  /\ capImage' = "none"
  /\ NextNode(violationIndex, nodeIndex)
  /\ UNCHANGED <<capNodes, capFiles, capData, notCapture>>

IsVisibleReturns(visible) ==
  /\ capPc = "isVisible"
  /\ IF visible
       THEN /\ capPc' = "scroll"
            /\ UNCHANGED <<capNodes, violationIndex, nodeIndex, capImage,
                           capFiles, capData, capLog, notCapture>>
       ELSE ReturnNull(NotVisible)

IsVisibleThrows == capPc = "isVisible" /\ ReturnNull(IsVisibleError)

ScrollReturns ==
  /\ capPc = "scroll"
  /\ capPc' = "wait"
  /\ UNCHANGED <<capNodes, violationIndex, nodeIndex, capImage, capFiles,
                 capData, capLog, notCapture>>

ScrollThrows == capPc = "scroll" /\ ReturnNull(ScrollError)

WaitReturns ==
  /\ capPc = "wait"
  /\ capPc' = "boundingBox"
  /\ UNCHANGED <<capNodes, violationIndex, nodeIndex, capImage, capFiles,
                 capData, capLog, notCapture>>

WaitThrows == capPc = "wait" /\ ReturnNull(WaitError)

BoundingBoxReturns(box) ==
  /\ capPc = "boundingBox"
  /\ IF box
       THEN /\ capPc' = "screenshot"
            /\ UNCHANGED <<capNodes, violationIndex, nodeIndex, capImage,
                           capFiles, capData, capLog, notCapture>>
       ELSE ReturnNull(NoBoundingBox)

BoundingBoxThrows == capPc = "boundingBox" /\ ReturnNull(BoundingBoxError)

\* The clipped screenshot is taken; addHighlightOverlay() starts.
ElementScreenshotReturns ==
  /\ capPc = "screenshot"
  /\ capImage' = "plain"
  /\ capPc' = "metadata"
  /\ UNCHANGED <<capNodes, violationIndex, nodeIndex, capFiles, capData,
                 capLog, notCapture>>

ElementScreenshotThrows == capPc = "screenshot" /\ ReturnNull(ScreenshotError)

MetadataReturns ==
  /\ capPc = "metadata"
  /\ capPc' = "composite"
  /\ UNCHANGED <<capNodes, violationIndex, nodeIndex, capImage, capFiles,
                 capData, capLog, notCapture>>

OverlayCatch_ReturnNull(message) == ReturnNull(message)

\* The catch block of addHighlightOverlay(): return imageBuffer.
OverlayCatch(message) ==
  /\ capLog' = message
  /\ capPc' = "writeFile"
  /\ UNCHANGED <<capNodes, violationIndex, nodeIndex, capImage, capFiles,
                 capData, notCapture>>

MetadataThrows == capPc = "metadata" /\ OverlayCatch(MetadataError)

CompositeReturns ==
  /\ capPc = "composite"
  /\ capImage' = "highlighted"
  /\ capPc' = "writeFile"
  /\ UNCHANGED <<capNodes, violationIndex, nodeIndex, capFiles, capData,
                 capLog, notCapture>>

CompositeThrows == capPc = "composite" /\ OverlayCatch(CompositeError)

\* fs.writeFile() has returned: captureElementScreenshot() returns the path
\* and the caller pushes the record.
CapWriteFileReturns ==
  /\ capPc = "writeFile"
  /\ capFiles' = capFiles @@ (<<violationIndex, nodeIndex>> :> capImage)
  /\ capData' = Append(capData, [violationIndex |-> violationIndex,
                                 nodeIndex |-> nodeIndex])
  /\ capImage' = "none"
  /\ NextNode(violationIndex, nodeIndex)
  /\ UNCHANGED <<capNodes, capLog, notCapture>>

CapWriteFileThrows == capPc = "writeFile" /\ ReturnNull(WriteFileError)

NextCapture ==
  \/ \E nodes \in NodeCounts : CaptureViolationScreenshots(nodes)
  \/ MkdirReturns
  \/ MkdirThrows
  \/ FullPageReturns
  \/ FullPageThrows
  \/ \E visible \in BOOLEAN : IsVisibleReturns(visible)
  \/ IsVisibleThrows
  \/ ScrollReturns
  \/ ScrollThrows
  \/ WaitReturns
  \/ WaitThrows
  \/ \E box \in BOOLEAN : BoundingBoxReturns(box)
  \/ BoundingBoxThrows
  \/ ElementScreenshotReturns
  \/ ElementScreenshotThrows
  \/ MetadataReturns
  \/ MetadataThrows
  \/ CompositeReturns
  \/ CompositeThrows
  \/ CapWriteFileReturns
  \/ CapWriteFileThrows

SpecCapture == Init /\ [][NextCapture]_vars

\* ------------------------------- ReportGenerator.optimizeViolationTables
\* A violation table is the sequence of the contents of its <tr> elements,
\* and a row is the sequence of the contents of its <td> elements, which is
\* what the regular expressions of the code take apart.  The header row has
\* <th> cells only and therefore no <td> cell.  The content of a cell is a
\* record: the <pre><code> blocks it holds (loc, src), its text, for the
\* cells built by createConsolidatedRow the count, the example blocks and
\* the number of the remainder line, and whether it still holds the
\* whitespace that compressTableCellWhitespace() removes.
MaxRows == 4
ExampleLimit == 3
SourceLimit == 100

Elements == {"#e1", "#e2"}
Fixes == {"fix1", "fix2"}

Cell(kind, n, loc, src, text, examples, more, padded) ==
  [kind |-> kind, n |-> n, loc |-> loc, src |-> src, text |-> text,
   examples |-> examples, more |-> more, padded |-> padded]

\* The cells of a row of the report template: the node's number, its
\* location and source, and the fix instructions.
IndexCell(k) == Cell("index", k, "", "", "", <<>>, 0, FALSE)

ElementCell(e) == Cell("element", 0, e, "<a id>", "", <<>>, 0, TRUE)

FixCell(f) == Cell("fix", 0, "", "", f, <<>>, 0, TRUE)

NoCell == Cell("", 0, "", "", "", <<>>, 0, FALSE)

HeaderRow == <<>>

\* The tables of the report: a header row and the rows of the nodes.
Tables ==
  UNION {{<<HeaderRow>> \o [k \in 1..n |->
                             <<IndexCell(k), ElementCell(es[k]),
                               FixCell(fs[k])>>] :
            es \in [1..n -> Elements], fs \in [1..n -> Fixes]} :
         n \in 0..MaxRows}

\* The replacements and the trim() applied to the content of a <td>.
compressCell(cell) == [cell EXCEPT !.padded = FALSE]

compressTableCellWhitespace(rows) ==
  [r \in 1..Len(rows) |-> [c \in 1..Len(rows[r]) |-> compressCell(rows[r][c])]]

\* The capture group of /<td>[\s\S]*?<\/td>[\s\S]*?<td>([\s\S]*?)<\/td>/ is
\* the content of the <td> that follows the first <td> of the row.
extractFixInstructions(row) ==
  IF Len(row) >= 2 THEN compressCell(row[2]) ELSE NoCell

\* The <pre><code> blocks of the first <td> of the row.
extractElementInfo(row) ==
  [location |-> row[1].loc, source |-> row[1].src]

KeyIndex(groups, key) ==
  {g \in 1..Len(groups) : groups[g].fixInstructions = key}

RECURSIVE GroupRows(_, _)
GroupRows(rows, groups) ==
  IF rows = <<>> THEN groups
  ELSE LET row == Head(rows)
           key == extractFixInstructions(row)
           at == KeyIndex(groups, key)
           created == IF at = {}
                        THEN Append(groups, [fixInstructions |-> key,
                                             rows |-> <<>>,
                                             elements |-> <<>>,
                                             count |-> 0])
                        ELSE groups
           g == CHOOSE x \in KeyIndex(created, key) : TRUE
       IN GroupRows(Tail(rows),
            [created EXCEPT
               ![g].rows = Append(@, row),
               ![g].elements = Append(@, extractElementInfo(row)),
               ![g].count = @ + 1])

\* Object.values() lists the groups in the order their keys were created.
groupSimilarViolations(rows) == GroupRows(rows, <<>>)

Truncate(source) ==
  IF Len(source) > SourceLimit
    THEN SubSeq(source, 1, SourceLimit) \o "..."
    ELSE source

createConsolidatedRow_ShowAll(group) ==
  <<Cell("count", group.count, "", "", "", <<>>, 0, FALSE),
    Cell("multiple", group.count, "", "", "Multiple similar violations",
         [k \in 1..Len(group.elements) |->
            [location |-> group.elements[k].location,
             source |-> Truncate(group.elements[k].source)]],
         0, TRUE),
    group.fixInstructions>>

createConsolidatedRow(group) ==
  LET shown == IF Len(group.elements) < ExampleLimit
                 THEN Len(group.elements) ELSE ExampleLimit
      elements == SubSeq(group.elements, 1, shown)
      remainingCount == group.count - ExampleLimit
  IN <<Cell("count", group.count, "", "", "", <<>>, 0, FALSE),
       Cell("multiple", group.count, "", "", "Multiple similar violations",
            [k \in 1..shown |->
               [location |-> elements[k].location,
                source |-> Truncate(elements[k].source)]],
            IF remainingCount > 0 THEN remainingCount ELSE 0, TRUE),
       group.fixInstructions>>

RECURSIVE RenderGroups(_)
RenderGroups(groups) ==
  IF groups = <<>> THEN <<>>
  ELSE LET group == Head(groups)
       IN <<IF group.count = 1 THEN group.rows[1]
                               ELSE createConsolidatedRow(group)>>
            \o RenderGroups(Tail(groups))

optimizeViolationTables(t) ==
  LET rows == compressTableCellWhitespace(t)
  IN IF Len(rows) <= 1 THEN rows
     ELSE <<rows[1]>> \o RenderGroups(groupSimilarViolations(Tail(rows)))

\* optimizeViolationTables() on the report.
Optimize ==
  /\ reportPc = "input"
  /\ optimized' = optimizeViolationTables(table)
  /\ groupedRows' = LET rows == compressTableCellWhitespace(table)
                    IN IF Len(rows) <= 1 THEN <<>>
                       ELSE groupSimilarViolations(Tail(rows))
  /\ reportPc' = "optimized"
  /\ UNCHANGED <<table, optimizedTwice, reportScreenshots, enhancedReport,
                 notReport>>

\* optimizeViolationTables() on the report it has produced.
OptimizeAgain ==
  /\ reportPc = "optimized"
  /\ optimizedTwice' = optimizeViolationTables(optimized)
  /\ reportPc' = "optimizedTwice"
  /\ UNCHANGED <<table, groupedRows, optimized, reportScreenshots,
                 enhancedReport, notReport>>

\* screenshotData: null, or the length of its violationScreenshots.
ScreenshotData ==
  {NoScreenshotData} \cup [null : {FALSE}, violationScreenshots : 0..MaxNodes]

\* The table of the report after injectScreenshots(), and the number of
\* screenshots handed to generateScreenshotHtml().
injectScreenshots(htmlReport, data) ==
  [table |-> optimizeViolationTables(htmlReport),
   screenshots |-> IF data.null THEN 0 ELSE data.violationScreenshots]

\* createHtmlReport(), addCustomStyling() and fixRulesSection() leave the
\* rows of the violation tables as they are.
generateEnhancedReport(htmlReport, data) ==
  IF ~data.null /\ data.violationScreenshots # 0
  THEN injectScreenshots(htmlReport, data)
  ELSE [table |-> htmlReport, screenshots |-> 0]

GenerateEnhancedReport(data) ==
  /\ reportPc = "input"
  /\ reportScreenshots' = data
  /\ enhancedReport' = generateEnhancedReport(table, data)
  /\ reportPc' = "enhanced"
  /\ UNCHANGED <<table, groupedRows, optimized, optimizedTwice, notReport>>

InitReport ==
  /\ ServerInit(BatchIds) /\ SingleInit /\ CaptureInit /\ JunitInit
  /\ PureInit
  /\ \E t \in Tables : ReportInit(t)

NextReport == Optimize \/ OptimizeAgain

SpecReport == InitReport /\ [][NextReport]_vars

NextEnhanced == \E data \in ScreenshotData : GenerateEnhancedReport(data)

SpecEnhanced == InitReport /\ [][NextEnhanced]_vars

\* ---------------------------------------------------- generateJUnitReport
MaxFindings == 2

RuleIds == {"image-alt", "label"}
Impacts == {"critical", "serious", "moderate", "minor"}

\* An entry of results.violations, with the number of its nodes.
Violations == [id : RuleIds, impact : Impacts, nodes : 1..MaxNodes]

AxeResults ==
  [violations : UNION {[1..k -> Violations] : k \in 0..MaxFindings},
   passes : UNION {[1..k -> RuleIds] : k \in 0..MaxFindings}]

RECURSIVE NodeTestcases(_)
NodeTestcases(violations) ==
  IF violations = <<>> THEN <<>>
  ELSE [n \in 1..Head(violations).nodes |->
          [classname |-> "accessibility.violations",
           name |-> Head(violations).id, failure |-> TRUE, elements |-> 1]]
       \o NodeTestcases(Tail(violations))

generateJUnitReport_PerNode(axeResults) ==
  LET failed == NodeTestcases(axeResults.violations)
  IN [tests |-> Len(failed) + Len(axeResults.passes),
      failures |-> Len(failed),
      testcases |-> failed
        \o [k \in 1..Len(axeResults.passes) |->
              [classname |-> "accessibility.passes",
               name |-> axeResults.passes[k], failure |-> FALSE,
               elements |-> 0]]]

\* testSuites[0]: the attributes and the test cases the XML is written from.
generateJUnitReport(axeResults) ==
  [tests |-> Len(axeResults.violations) + Len(axeResults.passes),
   failures |-> Len(axeResults.violations),
   testcases |->
     [k \in 1..Len(axeResults.violations) |->
        [classname |-> "accessibility.violations",
         name |-> axeResults.violations[k].id, failure |-> TRUE,
         elements |-> axeResults.violations[k].nodes]]
     \o [k \in 1..Len(axeResults.passes) |->
           [classname |-> "accessibility.passes",
            name |-> axeResults.passes[k], failure |-> FALSE,
            elements |-> 0]]]

GenerateJUnitReport ==
  /\ junitPc = "input"
  /\ junitReport' = generateJUnitReport(junitResults)
  /\ junitPc' = "generated"
  /\ UNCHANGED <<junitResults, sarifReport, notJunit>>

InitJunit ==
  /\ ServerInit(BatchIds) /\ SingleInit /\ CaptureInit /\ ReportInit(<<>>)
  /\ junitPc = "input"
  /\ junitResults \in AxeResults
  /\ junitReport = NoReport
  /\ sarifReport = NoSarif
  /\ PureInit

NextJunit == GenerateJUnitReport

SpecJunit == InitJunit /\ [][NextJunit]_vars

\* ---------------------------------------------------- generateSARIFReport
mapImpactToLevel_SeriousWarning(impact) ==
  IF impact = "critical" THEN "error"
  ELSE IF impact = "minor" THEN "note"
  ELSE "warning"

\* mapping[impact] || 'warning'
mapImpactToLevel(impact) ==
  IF impact \in {"critical", "serious"} THEN "error"
  ELSE IF impact = "moderate" THEN "warning"
  ELSE IF impact = "minor" THEN "note"
  ELSE "warning"

RECURSIVE NodeResults(_)
\* results.violations.flatMap(violation => violation.nodes.map(...))
NodeResults(violations) ==
  IF violations = <<>> THEN <<>>
  ELSE [n \in 1..Head(violations).nodes |->
          [ruleId |-> Head(violations).id,
           level |-> mapImpactToLevel(Head(violations).impact),
           node |-> n]]
       \o NodeResults(Tail(violations))

generateSARIFReport_RulePerNode(axeResults) ==
  [version |-> "2.1.0",
   rules |-> [x \in 1..Len(NodeResults(axeResults.violations)) |->
                [id |-> NodeResults(axeResults.violations)[x].ruleId,
                 impact |-> "critical"]],
   results |-> NodeResults(axeResults.violations)]

\* runs[0]: the rules of the driver and the results.
generateSARIFReport(axeResults) ==
  [version |-> "2.1.0",
   rules |-> [k \in 1..Len(axeResults.violations) |->
                [id |-> axeResults.violations[k].id,
                 impact |-> axeResults.violations[k].impact]],
   results |-> NodeResults(axeResults.violations)]

GenerateSARIFReport ==
  /\ junitPc = "input"
  /\ sarifReport = NoSarif
  /\ sarifReport' = generateSARIFReport(junitResults)
  /\ UNCHANGED <<junitPc, junitResults, junitReport, notJunit>>

NextSarif == GenerateSARIFReport

SpecSarif == InitJunit /\ [][NextSarif]_vars

\* ---------------------------------------- PDFGenerator.calculateSummaryStats
\* A JavaScript Number with a 53-bit significand is the natural number
\* `mant` (limbs in base 2^13, least significant first) times 2^(-52 - exp).
Limb == 2^13

LimbAt(a, j) == IF j \in 1..Len(a) THEN a[j] ELSE 0

\* floor(a / 2^s)
ShiftRight(a, s) ==
  LET w == s \div 13
      b == s % 13
  IN [x \in 1..Len(a) |->
        (LimbAt(a, x + w) \div 2^b) + (LimbAt(a, x + w + 1) % 2^b) * 2^(13 - b)]

RECURSIVE MulAdd(_, _, _)
\* a * k + c
MulAdd(a, k, c) ==
  IF a = <<>> THEN <<>>
  ELSE <<(a[1] * k + c) % Limb>> \o MulAdd(Tail(a), k, (a[1] * k + c) \div Limb)

\* a / 2^s for 0 < s < 13, rounded to nearest, ties to even
RoundShift(a, s) ==
  LET q == ShiftRight(a, s)
      low == a[1] % 2^s
      half == 2^(s - 1)
  IN IF low > half \/ (low = half /\ q[1] % 2 = 1) THEN MulAdd(q, 1, 1) ELSE q

RECURSIVE Exponent(_, _)
\* the least e with 2^e * p >= t
Exponent(p, t) == IF p >= t THEN 0 ELSE 1 + Exponent(2 * p, t)

\* p / t for 0 < p <= t: the quotient rounded to 53 significant bits
Divide(p, t) ==
  LET e == Exponent(p, t)
      r0 == 2^e * p - t
      q1 == (r0 * Limb) \div t
      r1 == (r0 * Limb) % t
      q2 == (r1 * Limb) \div t
      r2 == (r1 * Limb) % t
      q3 == (r2 * Limb) \div t
      r3 == (r2 * Limb) % t
      q4 == (r3 * Limb) \div t
      r4 == (r3 * Limb) % t
      m == <<q4, q3, q2, q1, 1>>
  IN [mant |-> IF 2 * r4 > t \/ (2 * r4 = t /\ q4 % 2 = 1)
               THEN MulAdd(m, 1, 1) ELSE m,
      exp |-> e]

\* x * 100: the product rounded to 53 significant bits
TimesHundred(x) ==
  LET prod == MulAdd(x.mant, 100, 0)
      drop == IF ShiftRight(prod, 59)[1] >= 1 THEN 7 ELSE 6
  IN [mant |-> RoundShift(prod, drop), exp |-> x.exp - drop]

\* Math.round(x) = floor(x + 1/2) for 0 < x <= 100
MathRound(x) == (ShiftRight(x.mant, 51 + x.exp)[1] + 1) \div 2

\* Math.round((passedTests / totalRules) * 100)
Percent(passedTests, totalRules) ==
  IF passedTests = 0 THEN 0
  ELSE MathRound(TimesHundred(Divide(passedTests, totalRules)))

MaxRules == 1
MaxPasses == 23
MaxInapplicable == 17

\* violation.tags holds at most one tag 'cat.<category>'; "" stands for none.
Categories == {"", "forms"}

SummaryViolations ==
  [impact : Impacts, nodes : 1..MaxNodes, category : Categories]

\* The argument of calculateSummaryStats(): the violations, and the lengths
\* of results.passes, results.incomplete and results.inapplicable.
SummaryResults ==
  [violations : UNION {[1..k -> SummaryViolations] : k \in 0..MaxFindings},
   passes : 0..MaxRules, incomplete : 0..MaxRules, inapplicable : 0..MaxRules]
  \cup
  [violations : {<<>>}, passes : 0..MaxPasses, incomplete : {0},
   inapplicable : 0..MaxInapplicable]

RECURSIVE TotalViolations(_)
\* results.violations.reduce((sum, v) => sum + v.nodes.length, 0)
TotalViolations(violations) ==
  IF violations = <<>> THEN 0
  ELSE Head(violations).nodes + TotalViolations(Tail(violations))

RECURSIVE SeverityCounts(_, _)
\* results.violations.forEach(violation => {
\*   if (severityCounts[violation.impact]) { ... += violation.nodes.length } })
SeverityCounts(violations, counts) ==
  IF violations = <<>> THEN counts
  ELSE SeverityCounts(Tail(violations),
         IF counts[Head(violations).impact] # 0
         THEN [counts EXCEPT ![Head(violations).impact] =
                 @ + Head(violations).nodes]
         ELSE counts)

\* categories[category], the number of violations tagged with the category
CategoryCount(violations, category) ==
  Cardinality({k \in 1..Len(violations) : violations[k].category = category})

\* topCategories: the categories by falling count, those of equal count in
\* the order of their first violation; <<>> if no violation has a category.
TopCategories(violations) ==
  LET tagged == {k \in 1..Len(violations) : violations[k].category # ""}
      first == {k \in tagged :
                  \A j \in tagged :
                    violations[j].category = violations[k].category => k <= j}
      Before(j, k) ==
        \/ CategoryCount(violations, violations[j].category)
             > CategoryCount(violations, violations[k].category)
        \/ /\ CategoryCount(violations, violations[j].category)
                = CategoryCount(violations, violations[k].category)
           /\ j < k
      rank(k) == 1 + Cardinality({j \in first : Before(j, k)})
  IN [r \in 1..Cardinality(first) |->
        LET k == CHOOSE x \in first : rank(x) = r
        IN [category |-> violations[k].category,
            count |-> CategoryCount(violations, violations[k].category)]]

Grade(score) ==
  IF score >= 95 THEN "Excellent"
  ELSE IF score >= 85 THEN "Good"
  ELSE IF score >= 70 THEN "Fair"
  ELSE "Needs Improvement"

Recommendations(severityCounts, incomplete, topCategories) ==
  LET lines ==
        (IF severityCounts["critical"] > 0
         THEN <<[line |-> "Address critical issues immediately",
                 count |-> severityCounts["critical"]]>> ELSE <<>>)
        \o (IF severityCounts["serious"] > 0
            THEN <<[line |-> "Fix serious violations",
                    count |-> severityCounts["serious"]]>> ELSE <<>>)
        \o (IF incomplete > 0
            THEN <<[line |-> "Review incomplete tests",
                    count |-> incomplete]>> ELSE <<>>)
        \o (IF Len(topCategories) > 0
            THEN <<[line |-> "Focus on " \o topCategories[1].category,
                    count |-> topCategories[1].count]>> ELSE <<>>)
  IN IF Len(lines) = 0 THEN <<[line |-> "Great job!", count |-> 0]>>
     ELSE lines

calculateSummaryStats(res) ==
  LET totalRules ==
        Len(res.violations) + res.passes + res.incomplete + res.inapplicable
      severityCounts ==
        SeverityCounts(res.violations, [x \in Impacts |-> 0])
      score == IF totalRules > 0 THEN Percent(res.passes, totalRules) ELSE 100
      topCategories == TopCategories(res.violations)
  IN [totalRules |-> totalRules,
      totalViolations |-> TotalViolations(res.violations),
      severityCounts |-> severityCounts,
      score |-> score,
      grade |-> Grade(score),
      topCategories |-> topCategories,
      recommendations |->
        Recommendations(severityCounts, res.incomplete, topCategories)]

CalculateSummaryStats ==
  /\ summaryPc = "input"
  /\ summaryStats' = calculateSummaryStats(summaryResults)
  /\ summaryPc' = "calculated"
  /\ UNCHANGED <<summaryResults, notSummary>>

\* results is any report of the rule engine within the bounds.
InitSummary ==
  /\ ServerInit(BatchIds) /\ SingleInit /\ CaptureInit /\ ReportInit(<<>>)
  /\ JunitInit /\ ClipInit
  /\ summaryPc = "input"
  /\ summaryResults \in SummaryResults
  /\ summaryStats = NoStats

NextSummary == CalculateSummaryStats

SpecSummary == InitSummary /\ [][NextSummary]_vars

\* ------------------------------ ScreenshotCapture.captureElementScreenshot
MaxCoordinate == 25
MaxSize == 2
padding == 20

Max(a, b) == IF a >= b THEN a ELSE b

\* element.boundingBox() of an element of the page
BoundingBoxes ==
  [x : 0..MaxCoordinate, y : 0..MaxCoordinate,
   width : 1..MaxSize, height : 1..MaxSize]

\* const screenshotArea
ClipArea(box) ==
  [x |-> Max(0, box.x - padding),
   y |-> Max(0, box.y - padding),
   width |-> box.width + (padding * 2),
   height |-> box.height + (padding * 2)]

\* the rectangle handed to addHighlightOverlay()
HighlightBounds(box) ==
  [x |-> padding, y |-> padding, width |-> box.width, height |-> box.height]

\* captureElementScreenshot() from the bounding box to the overlay.
ClipAndHighlight ==
  /\ clipPc = "input"
  /\ screenshotArea' = ClipArea(boundingBox)
  /\ elementBounds' = HighlightBounds(boundingBox)
  /\ clipPc' = "clipped"
  /\ UNCHANGED <<boundingBox, notClip>>

\* boundingBox is any box with non-negative coordinates within the bounds.
InitClip ==
  /\ ServerInit(BatchIds) /\ SingleInit /\ CaptureInit /\ ReportInit(<<>>)
  /\ JunitInit /\ SummaryInit
  /\ clipPc = "input"
  /\ boundingBox \in BoundingBoxes
  /\ screenshotArea = NoBox
  /\ elementBounds = NoBox

NextClip == ClipAndHighlight

SpecClip == InitClip /\ [][NextClip]_vars

\* ----------------------------------------------- concurrent batch runs
\* Two POST /api/batch-test requests whose background tasks interleave at
\* their awaits.  Each request has its own closure (batchProgress, browser,
\* context, loop locals); global.batchProgress is the only shared object.
MaxUrlsMulti == 1

MultiIds == {"b1", "b2"}

\* The URLs of the two requests are kept apart so that an outcome shows the
\* request it came from.
UrlsOf(r) == IF r = "b1" THEN {"u1"} ELSE {"u2"}

UrlSeqsOf(r, n) == UNION {[1..k -> UrlsOf(r)] : k \in 0..n}

InitMulti == InitFor(MultiIds)

NextMulti ==
  \E r \in MultiIds :
    \/ \E us \in UrlSeqsOf(r, MaxUrlsMulti), shots \in BOOLEAN :
         BatchTest(r, us, TRUE, shots)
    \/ LaunchReturns(r)
    \/ LaunchThrows(r)
    \/ NewContextReturns(r)
    \/ NewContextThrows(r)
    \/ NewPageReturns(r)
    \/ NewPageThrows(r)
    \/ GotoReturns(r)
    \/ GotoThrows(r)
    \/ \E violations \in 0..MaxViolations : AnalyzeReturns(r, violations)
    \/ AnalyzeThrows(r)
    \/ CaptureReturns(r)
    \/ CaptureThrows(r)
    \/ PageCloseReturns(r)
    \/ PageCloseThrows(r)
    \/ GenerateReturns(r)
    \/ GenerateThrows(r)
    \/ WriteFileReturns(r)
    \/ WriteFileThrows(r)
    \/ CatchCloseSettles(r)
    \/ ContextCloseSettles(r)
    \/ BrowserCloseSettles(r)

SpecMulti == InitMulti /\ [][NextMulti]_vars

\* ============================================================== properties
Started == DOMAIN batchProgress

NumFailed(outcomes) ==
  Cardinality({k \in 1..Len(outcomes) : outcomes[k].status = "failed"})

Terminated(r) == r \in Started /\ pc[r] = "done"

\* The browser session of run r was never established.
SessionFailed(r) == Terminated(r) /\ context[r] = "null"

\* C1 as stated: a terminated batch run is 'failed' if every URL failed,
\* 'partiallyFailed' if some but not all failed, 'completed' if none failed.
C1_ThreeWayStatus ==
  \A r \in Started : Terminated(r) =>
    LET bp == batchProgress[r]
        f == NumFailed(bp.results)
    IN bp.status = IF f = bp.totalUrls THEN "failed"
                   ELSE IF f > 0 THEN "partiallyFailed"
                   ELSE "completed"

\* C1 amended: a terminated batch run is 'failed' if every URL failed and
\* 'completed' otherwise, also when some but not all URLs failed; the
\* counters then count all URLs and the failed ones.
C1_FinalStatus ==
  \A r \in Started : Terminated(r) =>
    LET bp == batchProgress[r]
        f == NumFailed(bp.results)
    IN /\ bp.status = IF f = bp.totalUrls THEN "failed" ELSE "completed"
       /\ bp.failedUrls = f
       /\ f > 0 => bp.completedUrls = bp.totalUrls

C1_Witness ==
  \E r \in Started :
    /\ Terminated(r)
    /\ batchProgress[r].totalUrls >= 2
    /\ NumFailed(batchProgress[r].results) = 1
    /\ batchProgress[r].completedUrls = batchProgress[r].totalUrls
    /\ batchProgress[r].status = "completed"

\* C2: when the browser session of a batch run cannot be established, no
\* URL is attempted, the report has no outcome and the final status is
\* 'failed'.
C2_SessionFailure ==
  \A r \in Started : SessionFailed(r) =>
    /\ attempted[r] = {}
    /\ batchProgress[r].results = <<>>
    /\ batchProgress[r].status = "failed"

\* C3: once endTime is set, close() has been called on the context and the
\* browser that the run opened, and the status is a final one.
C3_SessionClosed ==
  \A r \in Started : batchProgress[r].endTime =>
    /\ browser[r] # "open"
    /\ context[r] # "open"
    /\ batchProgress[r].status \in {"failed", "completed"}

C3_Witness ==
  \E r \in Started :
    /\ batchProgress[r].endTime
    /\ browser[r] = "closed"
    /\ context[r] = "null"

\* C4: at most one URL of a run is in flight, at most one page of the run
\* is open, it is the page of the URL in flight, and no page is open when
\* the audit of the next URL begins.
C4_Sequential ==
  \A r \in Started :
    /\ Cardinality(attempted[r] \ (1..Len(batchProgress[r].results))) <= 1
    /\ Cardinality(openPages[r]) <= 1
    /\ openPages[r] \subseteq {i[r]}
    /\ pc[r] = "newPage" => openPages[r] = {}

C4_Witness ==
  \E r \in Started :
    /\ pc[r] = "goto"
    /\ i[r] = 2
    /\ openPages[r] = {2}
    /\ batchProgress[r].results[1].error = GotoError

CountersOK(bp) ==
  /\ bp.completedUrls <= bp.totalUrls
  /\ bp.failedUrls <= bp.completedUrls

\* C5: in every state of the report, and in every snapshot a poll returned,
\* completedUrls <= totalUrls and failedUrls <= completedUrls.
C5_Counters ==
  /\ \A r \in Started : CountersOK(batchProgress[r])
  /\ \A id \in DOMAIN lastPoll :
       lastPoll[id] # <<>> => CountersOK(lastPoll[id][1])

C5_Witness ==
  \E id \in DOMAIN lastPoll :
    /\ lastPoll[id] # <<>>
    /\ lastPoll[id][1].status = "Testing u2"
    /\ lastPoll[id][1].failedUrls = 1
    /\ lastPoll[id][1].completedUrls = 1

IsPrefix(a, b) ==
  /\ Len(a) <= Len(b)
  /\ \A k \in 1..Len(a) : a[k] = b[k]

\* C6: of two successive polls of a run, the later one has counters at least
\* as large and a results sequence that extends the earlier one.
C6_Monotonic ==
  [][\A id \in DOMAIN lastPoll :
       (lastPoll[id] # <<>> /\ lastPoll'[id] # <<>>) =>
         /\ lastPoll'[id][1].completedUrls >= lastPoll[id][1].completedUrls
         /\ lastPoll'[id][1].failedUrls >= lastPoll[id][1].failedUrls
         /\ IsPrefix(lastPoll[id][1].results, lastPoll'[id][1].results)]_vars

C6_Witness ==
  \E id \in DOMAIN lastPoll :
    /\ lastPoll[id] # <<>>
    /\ id \in Started
    /\ Len(lastPoll[id][1].results) = 1
    /\ Len(batchProgress[id].results) = 2
    /\ batchProgress[id].failedUrls > lastPoll[id][1].failedUrls

InInputOrder(outcomes, input) ==
  /\ Len(outcomes) <= Len(input)
  /\ \A j \in 1..Len(outcomes) : outcomes[j].url = input[j]

\* C7: the j-th recorded outcome of a batch run (in the report and in every
\* polled snapshot) and of a CI bulk run is the outcome of the j-th URL of
\* the request.
C7_InputOrder ==
  /\ \A r \in Started : InInputOrder(batchProgress[r].results, urls[r])
  /\ \A id \in DOMAIN lastPoll :
       lastPoll[id] # <<>> => InInputOrder(lastPoll[id][1].results, urls[id])
  /\ InInputOrder(ciResults, ciUrls)

C7_Witness ==
  \E r \in Started :
    /\ urls[r] = <<"u2", "u1">>
    /\ Len(batchProgress[r].results) = 2
    /\ batchProgress[r].results[1].status = "failed"
    /\ batchProgress[r].results[2].status = "completed"

\* A failure at position k of an aborting run: nothing after k is attempted
\* or recorded.
NothingAfter(k, started, outcomes) ==
  /\ \A m \in started : m <= k
  /\ Len(outcomes) <= k

\* C8 as stated: in any run, batch or CI bulk, with continueOnFailure=false,
\* no URL after a failed one is attempted or recorded, and totalUrls is the
\* size of the request.
C8_AbortAnyRun ==
  /\ \A r \in Started : ~reqContinue[r] =>
       /\ \A k \in 1..Len(batchProgress[r].results) :
            batchProgress[r].results[k].status = "failed" =>
              NothingAfter(k, attempted[r], batchProgress[r].results)
       /\ batchProgress[r].totalUrls = Len(urls[r])
  /\ ~ciOptions.continueOnFailure =>
       /\ \A k \in 1..Len(ciResults) :
            ~ciResults[k].success =>
              NothingAfter(k, ciAttempted, ciResults)
       /\ ciResponse.code \in {200, 422} =>
            ciResponse.totalUrls = Len(ciUrls)

\* C8 amended: in any CI bulk run with continueOnFailure=false, no URL after
\* a failed one (audit error or violations over the threshold) is attempted
\* or recorded, and the summary's totalUrls is the size of the request.
C8_AbortCiRun ==
  ~ciOptions.continueOnFailure =>
    /\ \A k \in 1..Len(ciResults) :
         ~ciResults[k].success => NothingAfter(k, ciAttempted, ciResults)
    /\ ciResponse.code \in {200, 422} =>
         /\ ciResponse.totalUrls = Len(ciUrls)
         /\ ciResponse.testedUrls = Len(ciResults)

C8_Witness ==
  /\ ~ciOptions.continueOnFailure
  /\ ciPc = "responded"
  /\ ciResponse.code = 422
  /\ ciResponse.totalUrls = 2
  /\ ciResponse.testedUrls = 1
  /\ ciResults[1].error = GotoError

CiTerminated == ciPc = "responded" /\ ciResponse.code # 400

\* C9 as stated: a terminated run with continueOnFailure=true has as many
\* outcomes as the request has URLs.
C9_AllRecorded ==
  /\ \A r \in Started : (reqContinue[r] /\ Terminated(r)) =>
       Len(batchProgress[r].results) = batchProgress[r].totalUrls
  /\ (ciOptions.continueOnFailure /\ CiTerminated) =>
       Len(ciResults) = Len(ciUrls)

\* C9 amended: a terminated run with continueOnFailure=true whose browser
\* session was established has as many outcomes as the request has URLs.
C9_AllRecordedInSession ==
  /\ \A r \in Started :
       (reqContinue[r] /\ Terminated(r) /\ context[r] # "null") =>
         Len(batchProgress[r].results) = batchProgress[r].totalUrls
  /\ (ciOptions.continueOnFailure /\ CiTerminated /\ ciContext # "null") =>
       /\ Len(ciResults) = Len(ciUrls)
       /\ ciResponse.code \in {200, 422} =>
            ciResponse.testedUrls = ciResponse.totalUrls

C9_Witness ==
  /\ ciOptions.continueOnFailure
  /\ CiTerminated
  /\ ciResponse.code = 422
  /\ Len(ciResults) = 2
  /\ ~ciResults[1].success
  /\ ciResults[2].success

\* C10: in a batch run, a navigation or rule-engine failure hands the error
\* to the per-URL catch block without touching the report; the catch block
\* appends exactly one failed outcome with the error message, adds one to
\* completedUrls and failedUrls, sets no run-level error and goes on with
\* the next URL if there is one.
C10_FailureIsolated ==
  [][\A r \in Started :
       LET bp == batchProgress[r]
           bq == batchProgress'[r]
       IN /\ (pc[r] \in {"goto", "analyze"} /\ pc'[r] \notin
                 {"goto", "analyze", "capture", "pageClose"}) =>
               /\ pc'[r] = "catchClose"
               /\ err'[r] = IF pc[r] = "goto" THEN GotoError ELSE AnalyzeError
               /\ bq = bp
          /\ (pc[r] = "catchClose" /\ pc'[r] # "catchClose") =>
               /\ bq.results = Append(bp.results,
                     [url |-> urls[r][i[r]], status |-> "failed",
                      violations |-> 0, error |-> err[r]])
               /\ bq.completedUrls = bp.completedUrls + 1
               /\ bq.failedUrls = bp.failedUrls + 1
               /\ bq.error = NoError
               /\ bq.status # "failed"
               /\ IF i[r] < Len(urls[r])
                    THEN /\ pc'[r] = "newPage"
                         /\ i'[r] = i[r] + 1
                         /\ i'[r] \in attempted'[r]
                    ELSE pc'[r] = "closeContext"]_vars

C10_Witness ==
  \E r \in Started :
    /\ pc[r] = "analyze"
    /\ i[r] = 2
    /\ batchProgress[r].results =
         <<[url |-> urls[r][1], status |-> "failed", violations |-> 0,
            error |-> GotoError]>>
    /\ batchProgress[r].completedUrls = 1
    /\ batchProgress[r].failedUrls = 1

\* The values the code assigns to batchProgress.status while a run of at
\* most n URLs is in progress.
ProgressStatuses(n) ==
  {Testing(u) : u \in Urls}
    \cup {CompletedOf(k, t) : k \in 0..n, t \in 1..n}

\* C11 as stated: the status of every report snapshot returned to a poller
\* is one of running, completed, partiallyFailed, failed.
C11_EnumStatus ==
  \A id \in DOMAIN lastPoll : \A k \in 1..Len(lastPoll[id]) :
    lastPoll[id][k].status
      \in {"running", "completed", "partiallyFailed", "failed"}

\* C11 amended: the status of every report snapshot returned to a poller is
\* running, failed, completed, or one of the progress texts 'Testing <url>'
\* and 'Completed k/n URLs'; it is never partiallyFailed; and a snapshot
\* that carries an end time has status failed or completed.
C11_StatusValues ==
  \A id \in DOMAIN lastPoll : \A k \in 1..Len(lastPoll[id]) :
    LET bp == lastPoll[id][k]
    IN /\ bp.status \in {"running", "failed", "completed"}
                          \cup ProgressStatuses(bp.totalUrls)
       /\ bp.endTime => bp.status \in {"failed", "completed"}

\* A poller has seen a progress text, and a poller has seen the report of an
\* ended run.
C11_Witness ==
  /\ Len(lastPoll["b1"]) = 1
  /\ lastPoll["b1"][1].status = CompletedOf(2, 2)
  /\ batchProgress["b1"].endTime

\* The report of a run that was registered and has not yet audited a URL.
InitialReport(bp) ==
  /\ bp.status = "running"
  /\ bp.completedUrls = 0
  /\ bp.failedUrls = 0
  /\ bp.results = <<>>
  /\ ~bp.endTime

\* C12: the step that answers the start request registers the run with
\* status running, zero counters and no outcomes, before any URL is audited;
\* from then on every status query for the run is answered 200 with the
\* current report, never 404; a query for an id that was never started is
\* answered 404 and returns no report.
C12_Registered ==
  [][/\ \A r \in BatchIds :
          (pc[r] = "idle" /\ pc'[r] = "launch") =>
            /\ r \notin Started
            /\ r \in DOMAIN batchProgress'
            /\ InitialReport(batchProgress'[r])
            /\ batchProgress'[r].totalUrls = Len(urls'[r])
            /\ attempted'[r] = {}
            /\ browser'[r] = "null"
     /\ \A id \in DOMAIN pollCode :
          /\ (id \in Started /\ pollCode'[id] # pollCode[id]) =>
               pollCode'[id] = 200
          /\ lastPoll'[id] # lastPoll[id] =>
               /\ id \in Started
               /\ pollCode'[id] = 200
               /\ lastPoll'[id] = <<batchProgress[id]>>
          /\ (id \notin Started /\ pollCode'[id] # pollCode[id]) =>
               /\ pollCode'[id] = 404
               /\ lastPoll'[id] = <<>>
     /\ Started \subseteq DOMAIN batchProgress'
    ]_vars

\* A poller got the initial report of a started run, and a query for an id
\* that was never started got 404.
C12_Witness ==
  /\ pollCode["b1"] = 200
  /\ Len(lastPoll["b1"]) = 1
  /\ InitialReport(lastPoll["b1"][1])
  /\ pollCode["zz"] = 404
  /\ lastPoll["zz"] = <<>>

\* Everything a batch run owns: its report, its browser session and the
\* locals of its background task.
RunState(r) ==
  <<IF r \in Started THEN <<batchProgress[r]>> ELSE <<>>,
    urls[r], pc[r], i[r], browser[r], context[r], page[r], openPages[r],
    attempted[r], err[r], results[r], screenshotData[r]>>

\* C13: in every interleaving of two batch runs, a step changes the report,
\* the browser session and the locals of one run only; each run's report
\* holds outcomes for its own URLs in its own input order with counters
\* that count its own outcomes; a run that audits URLs has launched a
\* browser of its own, and when it has ended that browser and its context
\* are closed.
C13_Independent ==
  [][/\ \A r1, r2 \in MultiIds :
          (r1 # r2 /\ RunState(r1)' # RunState(r1)) =>
            RunState(r2)' = RunState(r2)
     /\ \A r \in DOMAIN batchProgress' :
          LET bp == batchProgress'[r]
          IN /\ bp.batchId = r
             /\ bp.totalUrls = Len(urls'[r])
             /\ InInputOrder(bp.results, urls'[r])
             /\ \A k \in 1..Len(bp.results) : bp.results[k].url \in UrlsOf(r)
             /\ CountersOK(bp)
             /\ attempted'[r] # {} => browser'[r] = "open"
                                        \/ pc'[r] = "done"
             /\ bp.endTime => /\ browser'[r] # "open"
                              /\ context'[r] # "open"
    ]_vars

\* Both runs have ended, each with the outcome of its own URL, one failed
\* and one completed, and each has closed its own browser.
C13_Witness ==
  /\ Terminated("b1") /\ Terminated("b2")
  /\ batchProgress["b1"].results = <<failedResult("u1", GotoError)>>
  /\ batchProgress["b2"].results = <<summary("u2", MaxViolations)>>
  /\ browser["b1"] = "closed" /\ browser["b2"] = "closed"

\* The response tells the caller that the audit did not pass.
Unprocessable(response) ==
  response.code = 422 \/ response.success = "false"

\* C14 as stated: when the CI single-URL handler has audited the page and
\* answered, the response carries the unprocessable signal (422 or
\* success=false) exactly if failOnViolations is set and the number of
\* violations exceeds maxViolations, whatever the requested format.
C14_ThresholdSignal ==
  (tuPc = "responded" /\ tuBrowser = "closed") =>
    (Unprocessable(tuResponse)
       <=> (tuOptions.failOnViolations
              /\ tuViolations > tuOptions.maxViolations))

\* Evidence capture was due for the current URL of run r and has failed as a
\* whole: the audit has moved on and screenshotData is still null.
CaptureFailed(r) ==
  /\ pc[r] \in {"pageClose", "generate", "writeFile"}
  /\ includeScreenshots[r]
  /\ results[r] > 0
  /\ screenshotData[r] = "null"

\* C15: the end of evidence capture, by return or by failure, leaves the
\* report and the rule-engine result untouched and continues the audit of
\* the URL with page.close(); after a failed capture the URL's outcome is
\* recorded as completed with the rule-engine's violation count and
\* failedUrls unchanged, unless a later step of the audit (page close,
\* report generation, report file write) fails on its own.
C15_CaptureTolerated ==
  [][\A r \in BatchIds :
       /\ (pc[r] = "capture" /\ pc'[r] # "capture") =>
            /\ pc'[r] = "pageClose"
            /\ batchProgress'[r] = batchProgress[r]
            /\ results'[r] = results[r]
            /\ i'[r] = i[r]
       /\ (CaptureFailed(r)
             /\ Len(batchProgress'[r].results) # Len(batchProgress[r].results))
            =>
            LET bp == batchProgress[r]
                new == batchProgress'[r]
                o == new.results[Len(new.results)]
            IN /\ new.results = Append(bp.results, o)
               /\ \/ /\ o = summary(urls[r][i[r]], results[r])
                     /\ pc[r] = "writeFile"
                     /\ new.failedUrls = bp.failedUrls
                     /\ new.completedUrls = bp.completedUrls + 1
                  \/ /\ o.status = "failed"
                     /\ o.error \in {PageCloseError, GenerateError,
                                     WriteFileError}
    ]_vars

\* Evidence capture failed for a URL with violations, and the audit of that
\* URL went on to write its report.
C15_Witness ==
  /\ pc["b1"] = "writeFile"
  /\ CaptureFailed("b1")
  /\ batchProgress["b1"].failedUrls = 0

\* The nodes that have an evidence record.
Recorded(data) ==
  {<<data[k].violationIndex, data[k].nodeIndex>> : k \in 1..Len(data)}

\* C16 as stated: a node has an evidence record only if every step of its
\* pipeline succeeded, the highlight overlay included, so the image behind
\* every record is the highlighted one.
C16_AllStepsOrNone ==
  \A node \in Recorded(capData) :
    node \in DOMAIN capFiles /\ capFiles[node] = "highlighted"

\* C16 amended: a node gets an evidence record exactly when its image file
\* was written, which requires that the element was visible, its bounding
\* box was read and the region screenshot was taken; a failure of one of
\* these steps or of the file write yields null and no record.  A failure of
\* the highlight overlay does not: the unhighlighted screenshot is written
\* and the node gets its record.  No failure of a node's pipeline leaves
\* captureViolationScreenshots() by an exception.
C16_RecordIffSaved ==
  [][/\ Recorded(capData') = DOMAIN capFiles'
     /\ Len(capData') # Len(capData) =>
          /\ capPc = "writeFile"
          /\ capImage \in {"plain", "highlighted"}
          /\ capData' = Append(capData, [violationIndex |-> violationIndex,
                                         nodeIndex |-> nodeIndex])
          /\ capFiles'[<<violationIndex, nodeIndex>>] = capImage
     /\ (capPc \in {"metadata", "composite"} /\ capPc' # capPc) =>
          /\ capPc' \in {"composite", "writeFile"}
          /\ <<violationIndex, nodeIndex>>' = <<violationIndex, nodeIndex>>
          /\ capImage' \in {"plain", "highlighted"}
     /\ (capPc \in {"isVisible", "scroll", "wait", "boundingBox",
                    "screenshot"}
           /\ (capPc' = "returned"
                 \/ <<violationIndex, nodeIndex>>'
                      # <<violationIndex, nodeIndex>>)) =>
          /\ capData' = capData
          /\ capFiles' = capFiles
     /\ capPc' = "thrown" => capPc \in {"mkdir", "fullPage", "thrown"}
    ]_vars

\* The capture has returned; the first node, which was not visible or failed
\* before its file was written, has no record, and the second node, whose
\* overlay failed, has a record with the unhighlighted image.
C16_Witness ==
  /\ capPc = "returned"
  /\ capNodes = <<2>>
  /\ Recorded(capData) = {<<1, 2>>}
  /\ capFiles[<<1, 2>>] = "plain"

\* The rows of the nodes as optimizeViolationTables() groups them.
DataRows ==
  IF Len(table) > 1 THEN Tail(compressTableCellWhitespace(table)) ELSE <<>>

Members(group) == {group.rows[k] : k \in 1..Len(group.rows)}

\* The fix instructions of a row of a node: the text of its third cell.
Remediation(row) == row[3].text

\* C17 as stated: consolidation partitions the rows of the nodes into
\* groups keyed by the fix-instruction text: every row is in exactly one
\* group, two rows are in the same group exactly if their fix-instruction
\* texts are identical, and the count of a group is the number of its rows.
C17_KeyedByRemediation ==
  reportPc # "input" =>
    /\ \A k \in 1..Len(DataRows) :
         Cardinality({g \in 1..Len(groupedRows) :
                        DataRows[k] \in Members(groupedRows[g])}) = 1
    /\ \A j, k \in 1..Len(DataRows) :
         (\E g \in 1..Len(groupedRows) :
            {DataRows[j], DataRows[k]} \subseteq Members(groupedRows[g]))
           <=> Remediation(DataRows[j]) = Remediation(DataRows[k])
    /\ \A g \in 1..Len(groupedRows) :
         groupedRows[g].count = Cardinality(Members(groupedRows[g]))

\* The example blocks of the first n nodes of a group.
ExamplesOf(group, n) ==
  [k \in 1..n |-> [location |-> group.elements[k].location,
                   source |-> Truncate(group.elements[k].source)]]

\* C18: the optimized table has one row per group, in the order of the
\* groups; the row of a group of count 1 is the group's own row, changed
\* only by the whitespace compression applied to every cell; the row of a
\* group of count 2 or 3 shows the count, an example block for
\* each of its nodes and no remainder line; the row of a group of count
\* above 3 shows the count, example blocks for its first 3 nodes and a
\* remainder line with the number count - 3.
C18_Rendering ==
  reportPc # "input" =>
    /\ Len(optimized) = Len(groupedRows) + (IF Len(table) > 0 THEN 1 ELSE 0)
    /\ \A g \in 1..Len(groupedRows) :
         LET group == groupedRows[g]
             row == optimized[g + 1]
         IN /\ group.count = 1 =>
                 /\ row = group.rows[1]
                 /\ \E k \in 1..Len(DataRows) : row = DataRows[k]
            /\ group.count \in 2..3 =>
                 /\ row[1].n = group.count
                 /\ row[2].examples = ExamplesOf(group, group.count)
                 /\ row[2].more = 0
            /\ group.count > 3 =>
                 /\ row[1].n = group.count
                 /\ row[2].examples = ExamplesOf(group, 3)
                 /\ row[2].more = group.count - 3

\* A table was optimized that has a group of more than 3 nodes, rendered
\* with a remainder line.
C18_Witness ==
  /\ reportPc = "optimized"
  /\ \E g \in 1..Len(groupedRows) :
       /\ groupedRows[g].count = 4
       /\ Len(optimized[g + 1][2].examples) = 3
       /\ optimized[g + 1][2].more = 1

\* C19 as stated: optimizeViolationTables() on an already optimized table
\* keeps every group of the first run, with its members and its count: the
\* rows of the table are those of the first run, changed at most by the
\* whitespace compression.
C19_Idempotent ==
  reportPc = "optimizedTwice" =>
    optimizedTwice = compressTableCellWhitespace(optimized)

RECURSIVE SumNodes(_)
SumNodes(violations) ==
  IF violations = <<>> THEN 0
  ELSE Head(violations).nodes + SumNodes(Tail(violations))

FailedTestcases(report) ==
  {k \in 1..Len(report.testcases) : report.testcases[k].failure}

\* C20 as stated: the JUnit export has one failed test case per
\* (violation, node) pair and one passing test case per passed rule: tests
\* is the sum of the violations' node counts plus the number of passes, and
\* failures is the sum of the violations' node counts.
C20_PerNode ==
  junitPc = "generated" =>
    LET nodes == SumNodes(junitResults.violations)
    IN /\ Cardinality(FailedTestcases(junitReport)) = nodes
       /\ junitReport.tests = nodes + Len(junitResults.passes)
       /\ junitReport.failures = nodes

\* C20 amended: the JUnit export has one failed test case per violation,
\* whose failure text carries the number of the violation's nodes, followed
\* by one passing test case per passed rule: tests is the number of
\* violations plus the number of passes, failures is the number of
\* violations, and both are the exact counts of the test cases written.
C20_PerViolation ==
  junitPc = "generated" =>
    LET v == junitResults.violations
        p == junitResults.passes
        tc == junitReport.testcases
    IN /\ Len(tc) = Len(v) + Len(p)
       /\ FailedTestcases(junitReport) = 1..Len(v)
       /\ \A k \in 1..Len(v) : /\ tc[k].name = v[k].id
                               /\ tc[k].elements = v[k].nodes
       /\ \A k \in 1..Len(p) : tc[Len(v) + k].name = p[k]
       /\ junitReport.tests = Len(tc)
       /\ junitReport.failures = Cardinality(FailedTestcases(junitReport))

\* A report was generated for two violations, the first on 2 nodes, and one
\* passed rule: 3 tests, 2 failures.
C20_Witness ==
  /\ junitPc = "generated"
  /\ Len(junitResults.violations) = 2
  /\ junitResults.violations[1].nodes = 2
  /\ Len(junitResults.passes) = 1
  /\ junitReport.tests = 3
  /\ junitReport.failures = 2

SarifGenerated == sarifReport.version # ""

\* The results of the SARIF report that belong to violation entry k: those
\* after the nodes of the entries before it.
ResultsOf(k) ==
  LET before == SumNodes(SubSeq(junitResults.violations, 1, k - 1))
  IN {before + n : n \in 1..junitResults.violations[k].nodes}

\* C21: the SARIF export has exactly one result per node of each violation,
\* in the order of the violations, and the level of each result is
\* determined by the impact of its violation alone: error for critical and
\* serious, warning for moderate, note for minor.
C21_ResultPerNode ==
  SarifGenerated =>
    LET v == junitResults.violations
    IN /\ Len(sarifReport.results) = SumNodes(v)
       /\ \A k \in 1..Len(v) : \A x \in ResultsOf(k) :
            /\ sarifReport.results[x].ruleId = v[k].id
            /\ sarifReport.results[x].level =
                 (CASE v[k].impact \in {"critical", "serious"} -> "error"
                    [] v[k].impact = "moderate" -> "warning"
                    [] v[k].impact = "minor" -> "note")

\* A SARIF report for a serious violation on 2 nodes and a minor one: two
\* error results, then note results.
C21_Witness ==
  /\ SarifGenerated
  /\ Len(junitResults.violations) = 2
  /\ junitResults.violations[1].impact = "serious"
  /\ junitResults.violations[1].nodes = 2
  /\ junitResults.violations[2].impact = "minor"
  /\ sarifReport.results[1].level = "error"
  /\ sarifReport.results[2].level = "error"
  /\ sarifReport.results[3].level = "note"

RuleIdsOf(violations) == {violations[k].id : k \in 1..Len(violations)}

\* C22 as stated: rules[] of the SARIF export has exactly one entry per
\* distinct rule id among the violations, also when several violation
\* entries carry the same rule id.
C22_RulePerDistinctId ==
  SarifGenerated =>
    /\ Len(sarifReport.rules) =
         Cardinality(RuleIdsOf(junitResults.violations))
    /\ \A j, k \in 1..Len(sarifReport.rules) :
         sarifReport.rules[j].id = sarifReport.rules[k].id => j = k

\* C22 amended: rules[] of the SARIF export has exactly one entry per
\* violation entry, in the order of the violations and whatever the number
\* of its nodes; rule ids are not deduplicated, so the entries are distinct
\* exactly if the rule ids of the violation entries are.
C22_RulePerViolation ==
  SarifGenerated =>
    LET v == junitResults.violations
    IN /\ Len(sarifReport.rules) = Len(v)
       /\ \A k \in 1..Len(v) : /\ sarifReport.rules[k].id = v[k].id
                               /\ sarifReport.rules[k].impact = v[k].impact
       /\ (Len(sarifReport.rules) = Cardinality(RuleIdsOf(v)))
            <=> (\A j, k \in 1..Len(v) : v[j].id = v[k].id => j = k)

\* A SARIF report for two violation entries with the same rule id, the
\* first on 2 nodes: two rule entries with that id.
C22_Witness ==
  /\ SarifGenerated
  /\ Len(junitResults.violations) = 2
  /\ junitResults.violations[1].id = junitResults.violations[2].id
  /\ junitResults.violations[1].nodes = 2
  /\ Len(sarifReport.rules) = 2
  /\ sarifReport.rules[1].id = sarifReport.rules[2].id

SummaryCalculated == summaryPc = "calculated"

\* The number of nodes of the violations of the summarized results that
\* have the impact.
NodesWithImpact(impact) ==
  SumNodes(SelectSeq(summaryResults.violations,
                     LAMBDA v : v.impact = impact))

PositiveLine == [line |-> "Great job!", count |-> 0]

\* C23 as stated: with V, P, I, N the numbers of violations, passes,
\* incomplete and inapplicable rules, the executive score is 100 * P /
\* (V + P + I + N) rounded to the nearest integer (halves upwards), and 100
\* when the total is 0; the grade is Excellent from 95, Good from 85, Fair
\* from 70 and Needs Improvement below; without violations, incomplete
\* rules and categories the only recommendation is the positive one.
C23_Score ==
  SummaryCalculated =>
    LET total == Len(summaryResults.violations) + summaryResults.passes
                   + summaryResults.incomplete + summaryResults.inapplicable
        score == IF total = 0 THEN 100
                 ELSE (200 * summaryResults.passes + total) \div (2 * total)
    IN /\ summaryStats.score = score
       /\ summaryStats.grade =
            (CASE score >= 95 -> "Excellent"
               [] score >= 85 /\ score < 95 -> "Good"
               [] score >= 70 /\ score < 85 -> "Fair"
               [] score < 70 -> "Needs Improvement")
       /\ (Len(summaryResults.violations) = 0 /\ summaryResults.incomplete = 0)
            => summaryStats.recommendations = <<PositiveLine>>

\* C24 as stated: the recommendations are, in this order, the urgent line
\* iff violations of impact critical have nodes, the serious line iff
\* violations of impact serious have nodes, the manual-review line iff
\* there are incomplete rules, the focus line iff a top category exists;
\* the positive line appears iff none of the four does and is then alone.
C24_Precedence ==
  SummaryCalculated =>
    LET recs == summaryStats.recommendations
        lines == [k \in 1..Len(recs) |-> recs[k].line]
        expected ==
          (IF NodesWithImpact("critical") > 0
           THEN <<"Address critical issues immediately">> ELSE <<>>)
          \o (IF NodesWithImpact("serious") > 0
              THEN <<"Fix serious violations">> ELSE <<>>)
          \o (IF summaryResults.incomplete > 0
              THEN <<"Review incomplete tests">> ELSE <<>>)
          \o (IF summaryStats.topCategories # <<>>
              THEN <<"Focus on " \o summaryStats.topCategories[1].category>>
              ELSE <<>>)
    IN lines = IF expected = <<>> THEN <<"Great job!">> ELSE expected

\* C25 as stated: the report generated for results with violations has its
\* violation rows grouped and truncated, whether screenshots were disabled,
\* none was captured, or some were.
C25_AlwaysGrouped ==
  (reportPc = "enhanced" /\ Len(table) > 1) =>
    enhancedReport.table = optimizeViolationTables(table)

\* C26 as stated: in the CI bulk handler every page that was opened has
\* been closed when the next URL is attempted, and the browser that was
\* launched has been closed when the response is sent.
C26_CiResourcesClosed ==
  /\ ciPc = "newPage" => ciOpenPages = {}
  /\ ciPc = "responded" => ciBrowser \in {"null", "closed"}

\* C27 as stated: for every bounding box with non-negative coordinates the
\* highlight rectangle, placed in the clip, covers exactly the element:
\* clip origin plus highlight origin is the box origin, the highlight has
\* the size of the box, and the clip origin is max(0, box.x - 20),
\* max(0, box.y - 20).
C27_HighlightOnElement ==
  clipPc = "clipped" =>
    /\ screenshotArea.x = Max(0, boundingBox.x - 20)
    /\ screenshotArea.y = Max(0, boundingBox.y - 20)
    /\ screenshotArea.x + elementBounds.x = boundingBox.x
    /\ screenshotArea.y + elementBounds.y = boundingBox.y
    /\ elementBounds.width = boundingBox.width
    /\ elementBounds.height = boundingBox.height

\* C28 as stated: once a poll of a run has returned status 'failed' or
\* 'completed', every later poll of the run returns the same status, the
\* same counters and the same outcomes.
C28_TerminalStable ==
  [][\A id \in DOMAIN lastPoll :
       (/\ lastPoll[id] # <<>>
        /\ lastPoll[id][1].status \in {"failed", "completed"})
       => /\ lastPoll'[id] # <<>>
          /\ lastPoll'[id][1].status = lastPoll[id][1].status
          /\ lastPoll'[id][1].completedUrls = lastPoll[id][1].completedUrls
          /\ lastPoll'[id][1].failedUrls = lastPoll[id][1].failedUrls
          /\ lastPoll'[id][1].results = lastPoll[id][1].results]_vars

TerminalState(r) ==
  /\ r \in Started
  /\ batchProgress[r].status \in {"failed", "completed"}
  /\ batchProgress[r].endTime
  /\ pc[r] = "done"

\* C29: if every external call eventually returns or throws, every started
\* batch run eventually has status 'failed' or 'completed' with endTime
\* set, whatever fails for its URLs or in its close calls.
C29_EventuallyTerminal ==
  \A r \in BatchIds : (r \in Started) ~> TerminalState(r)

\* A run that ended after a failed URL and a failed close of its page.
C29_Witness ==
  \E r \in BatchIds :
    /\ TerminalState(r)
    /\ batchProgress[r].failedUrls >= 1
    /\ batchProgress[r].completedUrls = 2

CiResponded == ciPc = "responded"

\* The response is the one built after the loop, which carries the summary;
\* the 400 and 500 responses carry an error and no summary.
HasSummary == ciResponse.code \in {200, 422}

CiFailures == {k \in 1..Len(ciResults) : ~ciResults[k].success}

\* index of the first URL of the CI bulk request that failed
FirstFailure == CHOOSE k \in CiFailures : \A j \in CiFailures : k <= j

\* C30 as stated: success=true implies testedUrls = totalUrls = passedUrls
\* and failedUrls = 0; with continueOnFailure=false and a failure at URL k
\* the response has success=false and testedUrls = k, and the results
\* before the last are successes; always passedUrls + failedUrls =
\* testedUrls <= totalUrls.
C30_SummaryAlways ==
  CiResponded =>
    /\ ciResponse.success =>
         /\ ciResponse.testedUrls = ciResponse.totalUrls
         /\ ciResponse.passedUrls = ciResponse.totalUrls
         /\ ciResponse.failedUrls = 0
    /\ (~ciOptions.continueOnFailure /\ CiFailures # {}) =>
         /\ ~ciResponse.success
         /\ ciResponse.testedUrls = FirstFailure
         /\ \A k \in 1..(Len(ciResults) - 1) : ciResults[k].success
    /\ ciResponse.passedUrls + ciResponse.failedUrls = ciResponse.testedUrls
    /\ ciResponse.testedUrls <= ciResponse.totalUrls

\* C30 amended: as stated, for the response that carries the summary
\* (status 200 or 422); when browser.close() throws after the loop, the
\* response is the 500 error body: success=false and no summary, whatever
\* the outcomes were.
C30_SummaryCounts ==
  CiResponded =>
    /\ ciResponse.success =>
         /\ HasSummary
         /\ ciResponse.totalUrls = Len(ciUrls)
         /\ ciResponse.testedUrls = ciResponse.totalUrls
         /\ ciResponse.passedUrls = ciResponse.totalUrls
         /\ ciResponse.failedUrls = 0
         /\ \A k \in 1..Len(ciUrls) : ciResults[k].success
    /\ (~ciOptions.continueOnFailure /\ CiFailures # {}) =>
         /\ ~ciResponse.success
         /\ HasSummary => ciResponse.testedUrls = FirstFailure
         /\ Len(ciResults) = FirstFailure
         /\ \A k \in 1..(Len(ciResults) - 1) : ciResults[k].success
    /\ HasSummary =>
         /\ ciResponse.passedUrls + ciResponse.failedUrls
              = ciResponse.testedUrls
         /\ ciResponse.testedUrls = Len(ciResults)
         /\ ciResponse.testedUrls <= ciResponse.totalUrls
    /\ ciResponse.code = 500 => ~ciResponse.success

\* A request of 2 URLs with continueOnFailure=false whose first URL fails:
\* the 422 response reports 1 tested URL of 2.
C30_Witness ==
  /\ CiResponded
  /\ ~ciOptions.continueOnFailure
  /\ ciResponse.code = 422
  /\ ciResponse.totalUrls = 2
  /\ ciResponse.testedUrls = 1
  /\ ciResponse.failedUrls = 1
====
